---- MODULE Spec2Model ----
(***************************************************************************)
(* Verification model of alexpevzner/mfp.                                  *)
(*                                                                         *)
(* Part I  : escl.AbstractServer, the eSCL scan-job server                 *)
(*           (ServeHTTP, postScanJobs, getJobURINextDocument,              *)
(*           deleteJobURI, finish).                                        *)
(* Part II : transport.autoTLSListener, the plain/TLS demultiplexer        *)
(*           (accept, acceptWait, detectTLS, close).                       *)
(* Part III: wsdd.sched, the probe/resolve scheduler                       *)
(*           (newSched, proc, Close, Chan).                                *)
(* Part IV : discovery.Client and its cache                                *)
(*           (NewClient, AddBackend, Close, GetDevices, proc, nextEvent).  *)
(* Part V  : argv, the command line parser and the tokenizer               *)
(*           (parser.parse, Tokenize).                                     *)
(* Part VI : abstract.ScannerRequest (Validate).                           *)
(* Part VII: wsdd, the receive tasks of the multicast sockets              *)
(*           (backend.mconnProc, querier.procMconn, Close).                *)
(* Part VIII: xml, the encoder and the decoder (Element.Encode, Decode).   *)
(* Part IX : wsd.DecodeMsg and querier.Input, the dispatch of received    *)
(*           WSD messages.                                                 *)
(* Part X  : discovery.UnitID (SameDevice, SameService, SameUnit).        *)
(* Part XI : netstate.setOfInterfaces (add, del, contains).               *)
(*                                                                         *)
(* Every handler goroutine is a process; a critical section that makes no  *)
(* blocking call is one atomic step taken when the mutex is free.          *)
(***************************************************************************)
EXTENDS Integers, Sequences, FiniteSets, Bags, TLC

(***************************************************************************)
(* Bounds of the model.                                                    *)
(***************************************************************************)
\* Number of HTTP requests served concurrently (net/http goroutines).
NumReq == 2
\* Number of scan jobs the model lets the server create.
MaxJobs == 2
\* Number of goroutines that call Accept on the child listeners.
NumAcc == 2
\* Number of connections the parent listener hands out.
MaxConns == 2
\* Number of discovery events that wait in the client's queue.
MaxQueue == 2
\* Number of goroutines that call AddBackend concurrently.
NumAdd == 2
\* Number of tokens of a command line.
MaxArgv == 3
\* Number of characters of a line given to Tokenize.
MaxLine == 4
\* Number of parameters a scan request sets.
MaxSet == 3
\* Number of datagrams and errors the open sockets give.
MaxRecv == 3
\* Number of elements of a tree given to Encode.
MaxElems == 3

\* References held on one interface of a setOfInterfaces.
MaxRefs == 4

(***************************************************************************)
(* Part I.  eSCL AbstractServer                                            *)
(***************************************************************************)
VARIABLES
    document,   \* srv.document: 0 is nil, j > 0 the Document of job j
    status,     \* srv.status: [State, Jobs], Jobs newest first
    lock,       \* srv.lock: FALSE free; TRUE held by a goroutine that died
    closedDocs, \* the Documents on which Close() was called
    njobs,      \* number of jobs created so far
    req,        \* bag of the requests in progress: handler chosen and its data
    last        \* the handler step made last: its inputs, what it saw, its answer

esclVars == <<document, status, lock, closedDocs, njobs, req, last>>

\* autoTLSListener (Part II)
VARIABLES
    haveAccepter, \* atl.haveAccepter
    closed,       \* atl.closed
    parentClosed, \* Close() was called on atl.parent
    plain,        \* atl.plain.connections
    encrypted,    \* atl.encrypted.connections
    pending,      \* atl.pending
    conn,         \* per connection: first byte, SyscallConn support, place
    nconn,        \* number of connections parent.Accept has returned
    gor,          \* bag of the goroutines inside accept: place and locals
    ngone,        \* number of callers that have given up the closed listener
    closer        \* the goroutine in close(): its place, the conns it took

atlVars == <<haveAccepter, closed, parentClosed, plain, encrypted, pending,
             conn, nconn, gor, ngone, closer>>

\* wsdd.sched (Part III)
VARIABLES
    resolve,       \* s.resolve
    timerCanceled, \* s.timer: Cancel() was called
    chan,          \* s.c: the events buffered in the channel
    chanClosed,    \* close(s.c) was done
    proc,          \* the goroutine in proc: its place, fastCnt, tx
    elapsed,       \* time.Now() - start in resolve mode, in units of 250 ms
    closing,       \* the goroutine in sched.Close: its place
    lastRead,      \* what the last read from Chan() gave
    emitted        \* the events sent so far: counts for the series in progress

schedVars == <<resolve, timerCanceled, chan, chanClosed, proc, elapsed,
               closing, lastRead, emitted>>

\* discovery.Client (Part IV)
VARIABLES
    ctxDone,    \* clnt.ctx is cancelled
    queue,      \* clnt.queue: the events pushed and not pulled yet
    backends,   \* clnt.backends
    started,    \* per backend: the number of calls of its Start
    bkClosed,   \* the backends whose Close was called
    cache,      \* clnt.cache: [units, endpoints]
    clntLock,   \* clnt.lock is held (by a goroutine in AddBackend)
    adders,     \* bag of the goroutines in AddBackend past its first line
    worker,     \* the goroutine in proc: its place, evnt and err
    clntClose,  \* the goroutine in Client.Close: its place
    snapshots,  \* every GetDevices so far has returned the cache's content
    panics      \* the backends for which an AddBackend has panicked

clntVars == <<ctxDone, queue, backends, started, bkClosed, cache, clntLock,
              adders, worker, clntClose, snapshots, panics>>

\* argv (Part V)
VARIABLES
    prs,        \* the parser of the command line being parsed
    prev        \* what the run before gave for the same command line

argvVars == <<prs, prev>>

VARIABLE tk     \* Tokenize: its line, its place in it and its local variables

tkVars == <<tk>>

VARIABLE vld    \* Validate: the request, the capabilities and the error returned

vldVars == <<vld>>

VARIABLES
    rxOwner,    \* who runs the receive tasks: the backend or the querier
    backClosing, \* back.closing
    mcClosed,   \* per socket: Close was called on it
    task,       \* per socket: the receive task
    rxClose,    \* the place of Close of the owner
    recvd       \* number of returns of RecvFrom from an open socket

mconnVars == <<rxOwner, backClosing, mcClosed, task, rxClose, recvd>>

VARIABLE xm     \* the tree, the document Encode wrote and what Decode returned

xmlVars == <<xm>>

VARIABLE wq     \* the packet given to querier.Input and what became of it

wsdVars == <<wq>>

VARIABLE cmp    \* the two UnitIDs compared and the results

unitIDVars == <<cmp>>

VARIABLES
    sif,        \* setOfInterfaces: the count of references of each interface
    sifLast     \* the last call made on the set and what it returned

sifVars == <<sif, sifLast>>

vars == <<esclVars, atlVars, schedVars, clntVars, argvVars, tkVars, vldVars, mconnVars, xmlVars, wsdVars, unitIDVars, sifVars>>

\* What the steps of one part leave alone.
notEscl == <<atlVars, schedVars, clntVars, argvVars, tkVars, vldVars, mconnVars, xmlVars, wsdVars, unitIDVars, sifVars>>
notATL == <<esclVars, schedVars, clntVars, argvVars, tkVars, vldVars, mconnVars, xmlVars, wsdVars, unitIDVars, sifVars>>
notSched == <<esclVars, atlVars, clntVars, argvVars, tkVars, vldVars, mconnVars, xmlVars, wsdVars, unitIDVars, sifVars>>
notClnt == <<esclVars, atlVars, schedVars, argvVars, tkVars, vldVars, mconnVars, xmlVars, wsdVars, unitIDVars, sifVars>>
notArgv == <<esclVars, atlVars, schedVars, clntVars, tkVars, vldVars, mconnVars, xmlVars, wsdVars, unitIDVars, sifVars>>
notTk == <<esclVars, atlVars, schedVars, clntVars, argvVars, vldVars, mconnVars, xmlVars, wsdVars, unitIDVars, sifVars>>
notVld == <<esclVars, atlVars, schedVars, clntVars, argvVars, tkVars, mconnVars, xmlVars, wsdVars, unitIDVars, sifVars>>
notMconn == <<esclVars, atlVars, schedVars, clntVars, argvVars, tkVars, vldVars, xmlVars, wsdVars, unitIDVars, sifVars>>
notXML == <<esclVars, atlVars, schedVars, clntVars, argvVars, tkVars, vldVars, mconnVars, wsdVars, unitIDVars, sifVars>>
notWsd == <<esclVars, atlVars, schedVars, clntVars, argvVars, tkVars, vldVars, mconnVars, xmlVars, unitIDVars, sifVars>>
notUnitID == <<esclVars, atlVars, schedVars, clntVars, argvVars, tkVars, vldVars, mconnVars, xmlVars, wsdVars, sifVars>>
notSif == <<esclVars, atlVars, schedVars, clntVars, argvVars, tkVars, vldVars, mconnVars, xmlVars, wsdVars, unitIDVars>>

\* AbstractServerHistorySize: how many jobs the server keeps in its history.
AbstractServerHistorySize == 10

\* options.BasePath after transport.CleanURLPath(BasePath + "/").
BasePathDir == "/eSCL"
BasePath == BasePathDir \o "/"

\* uuid.UUID.URN() of the j-th UUID drawn by uuid.Random().
URN(j) == "urn:uuid:" \o ToString(j)

\* path.Join(srv.options.BasePath, "ScanJobs", jobuuid): the elements are
\* joined with "/" and the result is cleaned, which drops the slash that
\* ends BasePath.
JobURIOf(jobuuid) == BasePathDir \o "/" \o "ScanJobs" \o "/" \o jobuuid

Hosts == {"scanner.local", "192.0.2.1:8080"}

\* The requests the model sends: method and URL.Path = base \o rel; job and
\* sfx name the job URI and the suffix the path is made of (0, "none":
\* neither).
RootRequests ==
    {[method |-> "GET", base |-> "/other/", rel |-> "ScannerStatus"],
     [method |-> "GET", base |-> BasePath, rel |-> "ScannerCapabilities"],
     [method |-> "GET", base |-> BasePath, rel |-> "ScannerStatus"],
     [method |-> "POST", base |-> BasePath, rel |-> "ScanJobs"],
     [method |-> "DELETE", base |-> BasePath, rel |-> "ScanJobs"]}

JobRequests ==
    {[method |-> "GET", job |-> j, sfx |-> "/NextDocument"] : j \in 1..MaxJobs}
    \cup {[method |-> "GET", job |-> j, sfx |-> "/ScanImageInfo"] :
            j \in 1..MaxJobs}
    \cup {[method |-> "DELETE", job |-> j, sfx |-> ""] : j \in 1..MaxJobs}

Requests ==
    {[method |-> q.method, base |-> q.base, rel |-> q.rel,
      job |-> 0, sfx |-> "none"] : q \in RootRequests}
    \cup {[method |-> q.method, base |-> BasePath,
           rel |-> "ScanJobs/" \o URN(q.job) \o q.sfx,
           job |-> q.job, sfx |-> q.sfx] : q \in JobRequests}

URLPath(p) == p.base \o p.rel

\* The job of a JobInfo (0 when it is none of the model's jobs).
JobOfURI(uri) ==
    IF \E j \in 1..MaxJobs : uri = JobURIOf(URN(j))
    THEN CHOOSE j \in 1..MaxJobs : uri = JobURIOf(URN(j))
    ELSE 0

\* Job states (escl.JobState) and reasons used by the server.
JobProcessing == "Processing"
JobCompleted == "Completed"
JobCanceled == "Canceled"
JobAborted == "Aborted"
UnknownJobStateReason == "Unknown"

ScannerIdle == "Idle"
ScannerProcessing == "Processing"

\* NewAbstractServer: State Idle, no jobs, no document.
InitStatus == [State |-> ScannerIdle, Jobs |-> <<>>]

NoLast ==
    [op |-> "none", method |-> "none", sfx |-> "none", job |-> 0,
     body |-> "none", uuid |-> "none", scan |-> "none", next |-> "none",
     tls |-> FALSE, host |-> "none",
     code |-> 0, location |-> "none", doc |-> 0, panic |-> FALSE,
     preDoc |-> 0, preStatus |-> InitStatus]

InitEscl ==
    /\ document = 0
    /\ status = InitStatus
    /\ lock = FALSE
    /\ closedDocs = {}
    /\ njobs = 0
    /\ req = EmptyBag
    /\ last = NoLast

\* What a handler step records of the state it found.
Seen(op) == [NoLast EXCEPT !.op = op, !.preDoc = document,
                           !.preStatus = status]

\* ScannerStatus.PushJobInfo(info, max): the new job goes first, the history
\* is cut to max entries.
PushJobInfo(jobs, info, max) ==
    LET all == <<info>> \o jobs
    IN  IF Len(all) > max THEN SubSeq(all, 1, max) ELSE all

\* ServeHTTP choosing the {JobUri}-relative handler from the method and the
\* end of the path alone, whatever job the path names.
DispatchAnyJob(p) ==
    LET root ==
            CASE p.rel = "ScannerCapabilities" /\ p.method = "GET"
                    -> "getScannerCapabilities"
              [] p.rel = "ScannerStatus" /\ p.method = "GET"
                    -> "getScannerStatus"
              [] p.rel = "ScanJobs" /\ p.method = "POST"
                    -> "postScanJobs"
              [] OTHER -> "nil"
    IN  IF root # "nil" THEN root
        ELSE CASE p.method = "GET" /\ p.sfx = "/NextDocument"
                    -> "getJobURINextDocument"
               [] p.method = "GET" /\ p.sfx = "/ScanImageInfo"
                    -> "getJobURIScanImageInfo"
               [] p.method = "DELETE" /\ p.sfx = ""
                    -> "deleteJobURI"
               [] OTHER -> "nil"

\* The handler ServeHTTP chooses for a request under the lock ("nil": none).
Dispatch(p) ==
    LET root ==
            CASE p.rel = "ScannerCapabilities" /\ p.method = "GET"
                    -> "getScannerCapabilities"
              [] p.rel = "ScannerStatus" /\ p.method = "GET"
                    -> "getScannerStatus"
              [] p.rel = "ScanJobs" /\ p.method = "POST"
                    -> "postScanJobs"
              [] OTHER -> "nil"
        joburi == status.Jobs[1].JobURI
    IN  IF root # "nil" THEN root
        ELSE IF document # 0
        THEN CASE p.method = "GET" /\ URLPath(p) = joburi \o "/NextDocument"
                    -> "getJobURINextDocument"
               [] p.method = "GET" /\ URLPath(p) = joburi \o "/ScanImageInfo"
                    -> "getJobURIScanImageInfo"
               [] p.method = "DELETE" /\ URLPath(p) = joburi
                    -> "deleteJobURI"
               [] OTHER -> "nil"
        ELSE "nil"

\* The handler of request p: none outside BasePath (answered before the lock
\* is taken), else the one chosen by Dispatch.
ActionOf(p) == IF p.base = BasePath THEN Dispatch(p) ELSE "nil"

\* A request in progress: the handler it is in, the job its path addressed,
\* and for finish the caller ("EOF", "error": getJobURINextDocument;
\* "DELETE": deleteJobURI).
InReq(pc, job, why) == [pc |-> pc, job |-> job, why |-> why]

Start(t) == req (+) SetToBag({t})
Move(t, u) == (req (-) SetToBag({t})) (+) SetToBag({u})
End(t) == req (-) SetToBag({t})

\* ServeHTTP answering by itself: no handler (404), or a handler that
\* neither takes the lock nor reads the server: getScannerCapabilities
\* (200), getJobURIScanImageInfo (501).
ServeHTTP ==
    /\ BagCardinality(req) < NumReq
    /\ \E p \in Requests :
         LET action == ActionOf(p)
         IN  /\ p.base = BasePath => ~lock
             /\ action \in {"nil", "getScannerCapabilities",
                            "getJobURIScanImageInfo"}
             /\ last' = [Seen("ServeHTTP") EXCEPT
                           !.method = IF p.job = 0 THEN "none" ELSE p.method,
                           !.sfx = p.sfx, !.job = p.job,
                           !.code = CASE action = "nil" -> 404
                                      [] action = "getScannerCapabilities"
                                           -> 200
                                      [] OTHER -> 501]
    /\ UNCHANGED <<document, status, lock, closedDocs, njobs, req>>
    /\ UNCHANGED notEscl

\* ServeHTTP choosing getJobURINextDocument or deleteJobURI for the job in
\* progress: the lock is released before the handler is called.
\* deleteJobURI does nothing before it calls finish.
ServeJob ==
    /\ BagCardinality(req) < NumReq
    /\ ~lock
    /\ \E p \in Requests :
         /\ ActionOf(p) \in {"getJobURINextDocument", "deleteJobURI"}
         /\ req' = Start(IF ActionOf(p) = "deleteJobURI"
                         THEN InReq("finish", p.job, "DELETE")
                         ELSE InReq("getJobURINextDocument", p.job, "none"))
         /\ last' = [Seen("ServeJob") EXCEPT !.job = p.job]
    /\ UNCHANGED <<document, status, lock, closedDocs, njobs>>
    /\ UNCHANGED notEscl

\* postScanJobs without the check for a request in progress.
PostAnswerNoBusy(body, uu, scan) ==
    IF body \in {"badxml", "badsettings"}
    THEN [code |-> 400, uuid |-> "none", scan |-> "none"]
    ELSE IF uu # "ok"
    THEN [code |-> 503, uuid |-> uu, scan |-> "none"]
    ELSE IF scan # "ok"
    THEN [code |-> 409, uuid |-> uu, scan |-> scan]
    ELSE [code |-> 201, uuid |-> uu, scan |-> scan]

\* The answer of postScanJobs to a request with the given body, when
\* uuid.Random() and Scanner.Scan() would end as uu and scan: the checks are
\* made in the order of the code, and uuid/scan record what was called.
PostAnswer(body, uu, scan) ==
    IF body = "badxml"                \* xmldoc.Decode fails
    THEN [code |-> 400, uuid |-> "none", scan |-> "none"]
    ELSE IF body = "badsettings"      \* DecodeScanSettings fails
    THEN [code |-> 400, uuid |-> "none", scan |-> "none"]
    ELSE IF document # 0              \* previous request in progress
    THEN [code |-> 503, uuid |-> "none", scan |-> "none"]
    ELSE IF uu # "ok"                 \* uuid.Random fails
    THEN [code |-> 503, uuid |-> uu, scan |-> "none"]
    ELSE IF scan # "ok"               \* Scanner.Scan fails
    THEN [code |-> 409, uuid |-> uu, scan |-> scan]
    ELSE [code |-> 201, uuid |-> uu, scan |-> scan]

\* Created with the scheme fixed to "http" (query.TLS not looked at).
CreatedHTTPOnly(tls, host, joburi) == "http" \o "://" \o host \o joburi

\* abstractServerQuery.Created: the Location header of the 201 answer.
Created(tls, host, joburi) ==
    LET scheme == IF tls THEN "https" ELSE "http"
    IN  scheme \o "://" \o host \o joburi

\* postScanJobs that pushes the new job and leaves the scanner State as it
\* was.
PostStatusKeepsState(j) ==
    [State |-> status.State,
     Jobs |-> PushJobInfo(status.Jobs,
                          [JobURI |-> JobURIOf(URN(j)),
                           JobUUID |-> URN(j),
                           JobState |-> JobProcessing,
                           JobStateReasons |-> <<>>],
                          AbstractServerHistorySize)]

\* The status after postScanJobs accepted job j.
PostStatus(j) ==
    [State |-> ScannerProcessing,
     Jobs |-> PushJobInfo(status.Jobs,
                          [JobURI |-> JobURIOf(URN(j)),
                           JobUUID |-> URN(j),
                           JobState |-> JobProcessing,
                           JobStateReasons |-> <<>>],
                          AbstractServerHistorySize)]

\* POST {BasePath}ScanJobs: ServeHTTP chooses postScanJobs from the method
\* and the path alone, and the whole handler runs with the lock held.
\* body: the request body; uu, scan: how uuid.Random and Scanner.Scan end
\* ("conflict": the request does not fit the scanner, "fail": the device
\* fails); tls, host: query.TLS # nil and query.Host.
postScanJobs ==
    /\ BagCardinality(req) < NumReq
    /\ ~lock
    /\ njobs < MaxJobs
    /\ \E p \in Requests :
         /\ ActionOf(p) = "postScanJobs"
         /\ \E body \in {"valid", "badxml", "badsettings"},
               uu \in {"ok", "fail"}, scan \in {"ok", "conflict", "fail"} :
              LET ans == PostAnswer(body, uu, scan)
                  j == njobs + 1
                  seen == [Seen("postScanJobs") EXCEPT
                             !.body = body, !.uuid = ans.uuid,
                             !.scan = ans.scan, !.code = ans.code]
              IN  IF ans.code = 201
                  THEN /\ document' = j
                       /\ status' = PostStatus(j)
                       /\ njobs' = j
                       /\ \E tls \in BOOLEAN, host \in Hosts :
                            last' = [seen EXCEPT !.doc = j, !.job = j,
                                       !.tls = tls, !.host = host,
                                       !.location =
                                          Created(tls, host,
                                                  JobURIOf(URN(j)))]
                  ELSE /\ UNCHANGED <<document, status, njobs>>
                       /\ last' = seen
    /\ UNCHANGED <<lock, closedDocs, req>>
    /\ UNCHANGED notEscl

\* getJobURINextDocument that keeps the lock while the file is sent.
getJobURINextDocumentLocked ==
    /\ ~lock
    /\ document # 0
    /\ \E t \in BagToSet(req) :
         /\ t.pc = "getJobURINextDocument"
         /\ last' = [Seen("Next") EXCEPT !.job = t.job, !.doc = document,
                                        !.next = "file"]
         /\ req' = Move(t, InReq("SendImage", 0, "none"))
    /\ lock' = TRUE
    /\ UNCHANGED <<document, status, closedDocs, njobs>>
    /\ UNCHANGED notEscl

\* getJobURINextDocument, its locked part: srv.document.Next().
\* With no document the call panics on the nil interface while the lock is
\* held (there is no deferred Unlock): the goroutine dies, the lock stays.
getJobURINextDocument ==
    /\ ~lock
    /\ \E t \in BagToSet(req) :
         /\ t.pc = "getJobURINextDocument"
         /\ LET seen == [Seen("Next") EXCEPT !.job = t.job, !.doc = document]
            IN  IF document = 0
                THEN /\ lock' = TRUE
                     /\ req' = End(t)
                     /\ last' = [seen EXCEPT !.panic = TRUE]
                ELSE /\ lock' = lock
                     /\ \E res \in {"file", "EOF", "error"} :
                          /\ last' = [seen EXCEPT !.next = res]
                          /\ req' = Move(t, IF res = "file"
                                            THEN InReq("SendImage", 0, "none")
                                            ELSE InReq("finish", t.job, res))
    /\ UNCHANGED <<document, status, closedDocs, njobs>>
    /\ UNCHANGED notEscl

\* The arguments of finish and the answer sent after it, by caller.
FinishArgs(why) ==
    CASE why = "EOF" ->
            [state |-> JobCompleted, reason |-> "JobCompletedSuccessfully",
             code |-> 404]
      [] why = "error" ->
            [state |-> JobCanceled, reason |-> "AbortedBySystem",
             code |-> 503]
      [] OTHER ->
            [state |-> JobCanceled, reason |-> "JobCanceledByUser",
             code |-> 200]

\* finish that sets the scanner Idle and leaves Jobs[0].JobState as it was.
FinishStatusKeepsJob(state, reason) ==
    [State |-> ScannerIdle, Jobs |-> status.Jobs]

\* The status finish(state, reason) leaves.
FinishStatus(state, reason) ==
    [State |-> ScannerIdle,
     Jobs |-> [status.Jobs EXCEPT
                 ![1] = [@ EXCEPT
                           !.JobState = state,
                           !.JobStateReasons =
                              IF reason # UnknownJobStateReason
                              THEN <<reason>> ELSE @]]]

\* finish(state, reason) and the answer that follows it in the caller.
\* With no document srv.document.Close() panics; the deferred Unlock frees
\* the lock, nothing is changed and the request gets no answer.
finish ==
    /\ ~lock
    /\ \E t \in BagToSet(req) :
         /\ t.pc = "finish"
         /\ LET seen == [Seen("finish") EXCEPT !.job = t.job,
                            !.doc = document, !.next = t.why]
                args == FinishArgs(t.why)
            IN  IF document = 0
                THEN /\ last' = [seen EXCEPT !.panic = TRUE]
                     /\ UNCHANGED <<document, status, closedDocs>>
                ELSE /\ closedDocs' = closedDocs \cup {document}
                     /\ document' = 0
                     /\ status' = FinishStatus(args.state, args.reason)
                     /\ last' = [seen EXCEPT !.code = args.code]
         /\ req' = End(t)
    /\ UNCHANGED <<lock, njobs>>
    /\ UNCHANGED notEscl

\* SendImage: the file is streamed to the client, the lock is not held.
SendImage ==
    /\ \E t \in BagToSet(req) :
         /\ t.pc = "SendImage"
         /\ req' = End(t)
    /\ last' = [Seen("SendImage") EXCEPT !.code = 200]
    /\ UNCHANGED <<document, status, lock, closedDocs, njobs>>
    /\ UNCHANGED notEscl

\* GET {BasePath}ScannerStatus: chosen from the method and the path alone;
\* the status is read under the lock and sent.
getScannerStatus ==
    /\ BagCardinality(req) < NumReq
    /\ ~lock
    /\ \E p \in Requests : ActionOf(p) = "getScannerStatus"
    /\ last' = [Seen("getScannerStatus") EXCEPT !.code = 200]
    /\ UNCHANGED <<document, status, lock, closedDocs, njobs, req>>
    /\ UNCHANGED notEscl

NextEscl ==
    \/ ServeHTTP
    \/ ServeJob
    \/ postScanJobs
    \/ getJobURINextDocument
    \/ finish
    \/ SendImage
    \/ getScannerStatus

(***************************************************************************)
(* Part II.  autoTLSListener                                               *)
(*                                                                         *)
(* Connections are numbered in the order parent.Accept returns them.  A    *)
(* section of code between Lock and Unlock that makes no blocking call is  *)
(* one step.  The goroutines inside accept differ by their place and       *)
(* locals only and are kept as a bag.                                      *)
(***************************************************************************)
Conns == 1..MaxConns

\* A connection: first is the first byte the peer sends ("0x16", "other",
\* or "none" when the peer goes or the read fails before one arrives),
\* "unknown" until the listener has looked at the connection.  st is its
\* place: "none" not accepted yet, "open" inside the listener,
\* "plain"/"encrypted" returned by Accept of that child, "closed" closed by
\* the listener (of a closed connection nothing else is kept).
NoConn == [first |-> "unknown", st |-> "none"]

\* c.Close()
ClosedConn == [NoConn EXCEPT !.st = "closed"]

\* A goroutine inside accept: its place, the child it called, and in
\* acceptWait the connection c, withTLS and err.
InAccept(pc, enc) ==
    [pc |-> pc, encrypted |-> enc, c |-> 0, withTLS |-> FALSE, err |-> FALSE]

IdleCloser == [pc |-> "idle", conns |-> {}]

\* NewAutoTLSListener
InitATL ==
    /\ haveAccepter = FALSE
    /\ closed = FALSE
    /\ parentClosed = FALSE
    /\ plain = <<>>
    /\ encrypted = <<>>
    /\ pending = {}
    /\ conn = [c \in Conns |-> NoConn]
    /\ nconn = 0
    /\ gor = EmptyBag
    /\ ngone = 0
    /\ closer = IdleCloser

\* The goroutines inside accept at place pc.
At(pc) == {t \in BagToSet(gor) : t.pc = pc}

\* Goroutine t goes on as u / leaves accept.
Goes(t, u) == (gor (-) SetToBag({t})) (+) SetToBag({u})
Leaves(t) == gor (-) SetToBag({t})

\* accept: the queue a child is interested in.
QueueOf(enc) == IF enc THEN encrypted ELSE plain

\* autoTLSListenerQueue.pull: the first connection, 0 (nil) when empty.
pull(q) == IF Len(q) > 0 THEN Head(q) ELSE 0

\* autoTLSListenerQueue.pull that leaves the connection in the queue.
pullKeeps(q) == q

\* autoTLSListenerQueue.pull: the queue it leaves.
pullRest(q) == IF Len(q) > 0 THEN Tail(q) ELSE q

\* autoTLSListenerQueue.push
push(q, c) == Append(q, c)

SeqToSet(q) == {q[i] : i \in 1..Len(q)}

\* A loop iteration of accept that never waits for the goroutine already
\* accepting.
LoopChoiceNoWait(c, have) ==
    IF c # 0 THEN "return" ELSE "accept"

\* One iteration of the loop of accept, made with the lock held: return the
\* queued connection, wait for the goroutine that is accepting, or become
\* the accepter.
LoopChoice(c, have) ==
    IF c # 0 THEN "return"
    ELSE IF have THEN "wait"
    ELSE "accept"

\* The loop iteration of a goroutine that called child enc, where have is
\* atl.haveAccepter and others the other goroutines inside accept, as the
\* step found or left them.
Loop(enc, have, others) ==
    LET c == pull(QueueOf(enc))
        choice == LoopChoice(c, have)
    IN  /\ IF choice = "return"
           THEN /\ conn' = [conn EXCEPT ![c].st =
                                IF enc THEN "encrypted" ELSE "plain"]
                /\ plain' = IF enc THEN plain ELSE pullRest(plain)
                /\ encrypted' = IF enc THEN pullRest(encrypted)
                                ELSE encrypted
                /\ gor' = others
           ELSE /\ UNCHANGED <<conn, plain, encrypted>>
                /\ gor' = others (+) SetToBag({InAccept(
                             IF choice = "wait" THEN "wait"
                             ELSE "parentAccept", enc)})
        /\ haveAccepter' = (have \/ choice = "accept")

\* autoTLSListenerChild.Accept: accept(l.encrypted), up to the first
\* iteration of its loop.  The callers are the NumAcc goroutines that are
\* not inside accept and have not gone.
Accept ==
    /\ BagCardinality(gor) + ngone < NumAcc
    /\ \E enc \in BOOLEAN : Loop(enc, haveAccepter, gor)
    /\ UNCHANGED <<closed, parentClosed, pending, nconn, ngone, closer>>
    /\ UNCHANGED notATL

\* accept: a goroutine woken from atl.wait.Wait() has the lock again and
\* goes round the loop.
Woken ==
    /\ \E t \in At("top") : Loop(t.encrypted, haveAccepter, Leaves(t))
    /\ UNCHANGED <<closed, parentClosed, pending, nconn, ngone, closer>>
    /\ UNCHANGED notATL

\* acceptWait: atl.parent.Accept() returns the next connection.
ParentAccept ==
    /\ ~parentClosed
    /\ nconn < MaxConns
    /\ \E t \in At("parentAccept") :
         gor' = Goes(t, [t EXCEPT !.pc = "register", !.c = nconn + 1])
    /\ nconn' = nconn + 1
    /\ conn' = [conn EXCEPT ![nconn + 1].st = "open"]
    /\ UNCHANGED <<haveAccepter, closed, parentClosed, plain, encrypted,
                   pending, ngone, closer>>
    /\ UNCHANGED notATL

\* acceptWait: atl.parent.Accept() fails: always once the parent is closed,
\* and for reasons of its own before.
ParentAcceptErr ==
    /\ \E t \in At("parentAccept") :
         gor' = Goes(t, [t EXCEPT !.pc = "after", !.err = TRUE])
    /\ UNCHANGED <<haveAccepter, closed, parentClosed, plain, encrypted,
                   pending, conn, nconn, ngone, closer>>
    /\ UNCHANGED notATL

\* acceptWait: the connection is added to atl.pending, or dropped when the
\* listener is closed already.
Register ==
    /\ \E t \in At("register") :
         IF closed
         THEN /\ conn' = [conn EXCEPT ![t.c] = ClosedConn]
              /\ gor' = Goes(t, [t EXCEPT !.pc = "after", !.c = 0])
              /\ pending' = pending
         ELSE /\ pending' = pending \cup {t.c}
              /\ gor' = Goes(t, [t EXCEPT !.pc = "detect"])
              /\ conn' = conn
    /\ UNCHANGED <<haveAccepter, closed, parentClosed, plain, encrypted,
                   nconn, ngone, closer>>
    /\ UNCHANGED notATL

\* detectTLSRawConn: MSG_PEEK of the first bytes.  peek: "0x16"/"other" the
\* first byte read, "eof" the peer closed (n = 0, no error), "error" the
\* read failed.  Whatever happened, the error returned is nil.
detectTLSRawConn(peek) ==
    [withTLS |-> (peek = "0x16"), err |-> FALSE]

\* detectTLS: connections without SyscallConn() are taken as plain.
detectTLS(raw, peek) ==
    IF raw THEN detectTLSRawConn(peek)
    ELSE [withTLS |-> FALSE, err |-> FALSE]

\* The first bytes of a connection, by what a peek would give; of a
\* connection without SyscallConn() nothing is read, and the peer sends its
\* first byte later.
Peeks(raw) ==
    IF raw THEN {"0x16", "other", "eof", "error"} ELSE {"0x16", "other"}

\* acceptWait: atl.detectTLS(c) returns after the peer has sent its first
\* byte or has gone.
DetectTLS ==
    /\ \E t \in At("detect") :
         /\ conn[t.c].st = "open"
         /\ \E raw \in BOOLEAN :
              \E peek \in Peeks(raw) :
                 LET d == detectTLS(raw, peek)
                 IN  /\ conn' = [conn EXCEPT ![t.c].first =
                                   IF peek \in {"eof", "error"} THEN "none"
                                   ELSE peek]
                     /\ gor' = Goes(t, [t EXCEPT !.pc = "unpend",
                                                 !.withTLS = d.withTLS,
                                                 !.err = d.err])
    /\ UNCHANGED <<haveAccepter, closed, parentClosed, plain, encrypted,
                   pending, nconn, ngone, closer>>
    /\ UNCHANGED notATL

\* acceptWait: atl.detectTLS(c) on a connection that close() has closed:
\* the read is aborted, nothing was peeked and the error returned is nil.
DetectAborted ==
    /\ \E t \in At("detect") :
         /\ conn[t.c].st = "closed"
         /\ gor' = Goes(t, [t EXCEPT !.pc = "unpend", !.withTLS = FALSE,
                                     !.err = FALSE])
    /\ UNCHANGED <<haveAccepter, closed, parentClosed, plain, encrypted,
                   pending, conn, nconn, ngone, closer>>
    /\ UNCHANGED notATL

\* acceptWait: the connection leaves atl.pending; after a detection error
\* it is closed and acceptWait returns nil.
Unpend ==
    /\ \E t \in At("unpend") :
         /\ pending' = pending \ {t.c}
         /\ IF t.err
            THEN /\ conn' = [conn EXCEPT ![t.c] = ClosedConn]
                 /\ gor' = Goes(t, InAccept("after", t.encrypted))
            ELSE /\ conn' = conn
                 /\ gor' = Goes(t, [t EXCEPT !.pc = "enqueue"])
    /\ UNCHANGED <<haveAccepter, closed, parentClosed, plain, encrypted,
                   nconn, ngone, closer>>
    /\ UNCHANGED notATL

\* acceptWait: the classified connection is pushed to its queue, or closed
\* when the listener is closed.
Enqueue ==
    /\ \E t \in At("enqueue") :
         /\ CASE closed ->
                   /\ conn' = [conn EXCEPT ![t.c] = ClosedConn]
                   /\ UNCHANGED <<plain, encrypted>>
              [] ~closed /\ t.withTLS ->
                   /\ encrypted' = push(encrypted, t.c)
                   /\ UNCHANGED <<plain, conn>>
              [] OTHER ->
                   /\ plain' = push(plain, t.c)
                   /\ UNCHANGED <<encrypted, conn>>
         /\ gor' = Goes(t, InAccept("after", t.encrypted))
    /\ UNCHANGED <<haveAccepter, closed, parentClosed, pending, nconn,
                   ngone, closer>>
    /\ UNCHANGED notATL

\* sync.Cond.Wait returning after a Broadcast.
Wake(t) == IF t.pc = "wait" THEN [t EXCEPT !.pc = "top"] ELSE t

\* atl.wait.Broadcast(): every goroutine in Wait() is woken.
Broadcast(gs) == BagOfAll(Wake, gs)

\* accept, after acceptWait: haveAccepter is reset and the waiters are
\* woken; an error is returned, otherwise the loop goes on with the lock
\* still held.  A caller whose Accept fails on a closed listener does not
\* call it again.
After ==
    /\ \E t \in At("after") :
         IF t.err
         THEN /\ gor' = Broadcast(Leaves(t))
              /\ ngone' = IF closed THEN ngone + 1 ELSE ngone
              /\ haveAccepter' = FALSE
              /\ UNCHANGED <<conn, plain, encrypted>>
         ELSE /\ Loop(t.encrypted, FALSE, Broadcast(Leaves(t)))
              /\ ngone' = ngone
    /\ UNCHANGED <<closed, parentClosed, pending, nconn, closer>>
    /\ UNCHANGED notATL

\* close that forgets the connections being classified.
CloseTakesQueued == SeqToSet(plain) \cup SeqToSet(encrypted)

\* close: the connections taken with the lock held: both queues (pullAll)
\* and atl.pending.
CloseTakes == SeqToSet(plain) \cup SeqToSet(encrypted) \cup pending

\* autoTLSListenerChild.Close, close: the locked part.  A call on a closed
\* listener finds nothing to take and changes nothing: it is left out.
Close ==
    /\ closer.pc = "idle"
    /\ ~closed
    /\ closed' = TRUE
    /\ closer' = [pc |-> "parent", conns |-> CloseTakes]
    /\ plain' = <<>>
    /\ encrypted' = <<>>
    /\ pending' = {}
    /\ UNCHANGED <<haveAccepter, parentClosed, conn, nconn, gor, ngone>>
    /\ UNCHANGED notATL

\* close: atl.parent.Close()
CloseParent ==
    /\ closer.pc = "parent"
    /\ parentClosed' = TRUE
    /\ closer' = [closer EXCEPT !.pc = "conns"]
    /\ UNCHANGED <<haveAccepter, closed, plain, encrypted, pending, conn,
                   nconn, gor, ngone>>
    /\ UNCHANGED notATL

\* close: c.Close() for every connection taken.
CloseConns ==
    /\ closer.pc = "conns"
    /\ conn' = [c \in Conns |-> IF c \in closer.conns
                                THEN ClosedConn
                                ELSE conn[c]]
    /\ closer' = IdleCloser
    /\ UNCHANGED <<haveAccepter, closed, parentClosed, plain, encrypted,
                   pending, nconn, gor, ngone>>
    /\ UNCHANGED notATL

\* The steps the goroutines inside accept and close take once they can:
\* all but the call of Accept, the arrival of a connection and of its first
\* byte.
Runs ==
    \/ Woken
    \/ parentClosed /\ ParentAcceptErr
    \/ Register
    \/ DetectAborted
    \/ Unpend
    \/ Enqueue
    \/ After
    \/ CloseParent
    \/ CloseConns

NextATL ==
    \/ Accept
    \/ Woken
    \/ ParentAccept
    \/ ParentAcceptErr
    \/ Register
    \/ DetectTLS
    \/ DetectAborted
    \/ Unpend
    \/ Enqueue
    \/ After
    \/ Close
    \/ CloseParent
    \/ CloseConns

(***************************************************************************)
(* Part III.  wsdd.sched                                                   *)
(*                                                                         *)
(* Time is counted in units of 250 ms.  The timer type is not part of the  *)
(* sources at hand: Sleep(d) returns true after d, or false as soon as     *)
(* Cancel() was called, before or during the sleep.                        *)
(***************************************************************************)
schedRetransmitSeriesLen == 4
schedRetransmitDelayMin == 1
schedRetransmitDelayMax == 2
schedFastSeriesLen == 2
schedFastSeriesDelay == 4
schedInterSeriesDelay == 20
schedResolveMaxTime == 20

\* make(chan schedEvent, 4)
ChanCap == 4

\* proc before newSched, and the counters at the top of proc.
NoProc == [pc |-> "none", fastCnt |-> 0, tx |-> 0, why |-> "none"]

NoEmitted == [news |-> FALSE, sends |-> 0, gap |-> -1]

\* Before newSched.
InitSched ==
    /\ resolve = FALSE
    /\ timerCanceled = FALSE
    /\ chan = <<>>
    /\ chanClosed = FALSE
    /\ proc = NoProc
    /\ elapsed = 0
    /\ closing = "idle"
    /\ lastRead = "none"
    /\ emitted = NoEmitted

\* newSched(resolve): go s.proc()
newSched ==
    /\ proc.pc = "none"
    /\ \E r \in BOOLEAN : resolve' = r
    /\ proc' = [NoProc EXCEPT !.pc = "new"]
    /\ UNCHANGED <<timerCanceled, chan, chanClosed, elapsed, closing,
                   lastRead, emitted>>
    /\ UNCHANGED notSched

\* The record of the events sent, after event e is sent: whether a
\* schedNewMessage was sent, the schedSend sent since the last one, and the
\* schedSend between the last two schedNewMessage (-1: there are not two).
Emit(e) ==
    IF e = "schedNewMessage"
    THEN [news |-> TRUE, sends |-> 0,
          gap |-> IF emitted.news THEN emitted.sends ELSE emitted.gap]
    ELSE [emitted EXCEPT !.sends = emitted.sends + 1]

\* time.Now() - start after d more units; resolveTimedOut is all that reads
\* it, and only in resolve mode.
Later(d) ==
    IF ~resolve THEN elapsed
    ELSE IF elapsed + d > schedResolveMaxTime THEN schedResolveMaxTime
    ELSE elapsed + d

\* proc: s.c <- schedNewMessage
SendNewMessage ==
    /\ proc.pc = "new"
    /\ Len(chan) < ChanCap
    /\ chan' = Append(chan, "schedNewMessage")
    /\ emitted' = Emit("schedNewMessage")
    /\ proc' = [proc EXCEPT !.pc = "send", !.tx = 0]
    /\ UNCHANGED <<resolve, timerCanceled, chanClosed, elapsed, closing,
                   lastRead>>
    /\ UNCHANGED notSched

\* proc: s.c <- schedSend
SendSend ==
    /\ proc.pc = "send"
    /\ Len(chan) < ChanCap
    /\ chan' = Append(chan, "schedSend")
    /\ emitted' = Emit("schedSend")
    /\ proc' = [proc EXCEPT !.pc = "sleepTx"]
    /\ UNCHANGED <<resolve, timerCanceled, chanClosed, elapsed, closing,
                   lastRead>>
    /\ UNCHANGED notSched

\* A timer whose Sleep takes no notice of Cancel.
SleepNeverCanceled == FALSE

\* timer.Sleep returns false: Cancel() was called, before or during the
\* sleep.
SleepCanceled == timerCanceled

\* A retransmit series that goes one schedSend too far.
TxMoreOneOff(tx) == tx <= schedRetransmitSeriesLen

\* proc: the test of the retransmit loop.
TxMore(tx) == tx < schedRetransmitSeriesLen

\* proc: s.timer.Sleep(delay) in the retransmit series, tx++ and the test
\* of the loop.
SleepRetransmit ==
    /\ proc.pc = "sleepTx"
    /\ IF SleepCanceled
       THEN /\ proc' = [proc EXCEPT !.pc = "exit", !.why = "canceled"]
            /\ elapsed' = elapsed
       ELSE /\ \E delay \in schedRetransmitDelayMin..schedRetransmitDelayMax :
                 elapsed' = Later(delay)
            /\ proc' = [proc EXCEPT
                          !.tx = proc.tx + 1,
                          !.pc = IF TxMore(proc.tx + 1) THEN "send"
                                 ELSE "sleepFast"]
    /\ UNCHANGED <<resolve, timerCanceled, chan, chanClosed, closing,
                   lastRead, emitted>>
    /\ UNCHANGED notSched

\* A resolve mode without its deadline.
resolveNeverTimedOut(now) == FALSE

\* sched.resolveTimedOut, with now = time.Now() - start
resolveTimedOut(now) ==
    IF ~resolve THEN FALSE ELSE now >= schedResolveMaxTime

\* proc: s.timer.Sleep(schedFastSeriesDelay), fastCnt++ in browse mode, the
\* check for the resolve timeout and the test of the fast series loop.
SleepFastSeries ==
    /\ proc.pc = "sleepFast"
    /\ IF SleepCanceled
       THEN /\ proc' = [proc EXCEPT !.pc = "exit", !.why = "canceled"]
            /\ elapsed' = elapsed
       ELSE LET fastCnt == IF ~resolve THEN proc.fastCnt + 1
                           ELSE proc.fastCnt
            IN  /\ elapsed' = Later(schedFastSeriesDelay)
                /\ proc' =
                     IF resolveTimedOut(Later(schedFastSeriesDelay))
                     THEN [proc EXCEPT !.pc = "exit", !.why = "timeout",
                                       !.fastCnt = fastCnt]
                     ELSE IF fastCnt < schedFastSeriesLen
                     THEN [proc EXCEPT !.pc = "new", !.fastCnt = fastCnt]
                     ELSE [proc EXCEPT !.pc = "sleepInter",
                                       !.fastCnt = fastCnt]
    /\ UNCHANGED <<resolve, timerCanceled, chan, chanClosed, closing,
                   lastRead, emitted>>
    /\ UNCHANGED notSched

\* proc: s.timer.Sleep(schedInterSeriesDelay), then the next fast series.
SleepInterSeries ==
    /\ proc.pc = "sleepInter"
    /\ IF SleepCanceled
       THEN /\ proc' = [proc EXCEPT !.pc = "exit", !.why = "canceled"]
            /\ elapsed' = elapsed
       ELSE /\ elapsed' = Later(schedInterSeriesDelay)
            /\ proc' = [proc EXCEPT !.pc = "new", !.fastCnt = 0]
    /\ UNCHANGED <<resolve, timerCanceled, chan, chanClosed, closing,
                   lastRead, emitted>>
    /\ UNCHANGED notSched

\* proc returns: the deferred close(s.c) and s.done.Done().
ProcExit ==
    /\ proc.pc = "exit"
    /\ chanClosed' = TRUE
    /\ proc' = [proc EXCEPT !.pc = "done"]
    /\ UNCHANGED <<resolve, timerCanceled, chan, elapsed, closing, lastRead,
                   emitted>>
    /\ UNCHANGED notSched

\* Time that passes while proc is blocked or not scheduled.
TimePasses ==
    /\ proc.pc \in {"new", "send", "sleepTx", "sleepFast", "sleepInter"}
    /\ resolve
    /\ elapsed < schedResolveMaxTime
    /\ elapsed' = elapsed + 1
    /\ UNCHANGED <<resolve, timerCanceled, chan, chanClosed, proc, closing,
                   lastRead, emitted>>
    /\ UNCHANGED notSched

\* A receive from the channel: the value it gives.  A closed channel gives
\* what is still buffered, then the zero value, schedClosed.
Received == IF Len(chan) > 0 THEN Head(chan) ELSE "schedClosed"

\* A receive can be done.
CanReceive == Len(chan) > 0 \/ chanClosed

\* The owner reads the next event from s.Chan().
Read ==
    /\ proc.pc # "none"
    /\ CanReceive
    /\ lastRead' = Received
    /\ chan' = IF Len(chan) > 0 THEN Tail(chan) ELSE chan
    /\ UNCHANGED <<resolve, timerCanceled, chanClosed, proc, elapsed,
                   closing, emitted>>
    /\ UNCHANGED notSched

\* sched.Close: s.timer.Cancel()
SchedClose ==
    /\ proc.pc # "none"
    /\ closing = "idle"
    /\ timerCanceled' = TRUE
    /\ closing' = "drain"
    /\ UNCHANGED <<resolve, chan, chanClosed, proc, elapsed, lastRead,
                   emitted>>
    /\ UNCHANGED notSched

\* A Close that leaves the channel as it is.
DrainNothing == FALSE

\* sched.Close: the test of the drain loop.
DrainMore == Len(chan) > 0

\* sched.Close: one turn of the drain loop, up to the receive.
CloseDrain ==
    /\ closing = "drain"
    /\ closing' = IF DrainMore THEN "receive" ELSE "wait"
    /\ UNCHANGED <<resolve, timerCanceled, chan, chanClosed, proc, elapsed,
                   lastRead, emitted>>
    /\ UNCHANGED notSched

\* sched.Close: <-s.c in the drain loop.
CloseReceive ==
    /\ closing = "receive"
    /\ CanReceive
    /\ chan' = IF Len(chan) > 0 THEN Tail(chan) ELSE chan
    /\ closing' = "drain"
    /\ UNCHANGED <<resolve, timerCanceled, chanClosed, proc, elapsed,
                   lastRead, emitted>>
    /\ UNCHANGED notSched

\* sched.Close: s.done.Wait() returns, and Close with it.
CloseWait ==
    /\ closing = "wait"
    /\ proc.pc = "done"
    /\ closing' = "returned"
    /\ UNCHANGED <<resolve, timerCanceled, chan, chanClosed, proc, elapsed,
                   lastRead, emitted>>
    /\ UNCHANGED notSched

\* The steps of proc and of Close, taken once they can be.
SchedRuns ==
    \/ SendNewMessage
    \/ SendSend
    \/ SleepRetransmit
    \/ SleepFastSeries
    \/ SleepInterSeries
    \/ ProcExit
    \/ CloseDrain
    \/ CloseReceive
    \/ CloseWait

NextSched ==
    \/ newSched
    \/ SendNewMessage
    \/ SendSend
    \/ SleepRetransmit
    \/ SleepFastSeries
    \/ SleepInterSeries
    \/ ProcExit
    \/ TimePasses
    \/ Read
    \/ SchedClose
    \/ CloseDrain
    \/ CloseReceive
    \/ CloseWait

(***************************************************************************)
(* Part IV.  discovery.Client                                              *)
(*                                                                         *)
(* Eventqueue and cache are not part of the sources at hand: the queue is  *)
(* FIFO and unbounded, pull(ctx) gives the next event or the error of a    *)
(* cancelled context, and the cache has the two indexes and the event      *)
(* semantics of its description.  Any cache update may end with an error.  *)
(***************************************************************************)
Backends == {"wsdd", "dnssd"}
UnitIDs == {"unit1", "unit2"}
URLs == {"url1"}

Event(kind, id, url) == [kind |-> kind, id |-> id, url |-> url]

NoEvent == Event("none", "none", "none")

\* EventAddUnit, EventDelUnit
UnitEvents ==
    {Event(k, id, "none") : k \in {"AddUnit", "DelUnit"}, id \in UnitIDs}

\* EventMetadata, standing also for the three Event...Parameters
ParamEvents == {Event("Metadata", id, "none") : id \in UnitIDs}

\* EventAddEndpoint, EventDelEndpoint
EndpointEvents ==
    {Event(k, id, url) : k \in {"AddEndpoint", "DelEndpoint"},
                         id \in UnitIDs, url \in URLs}

Events == UnitEvents \cup ParamEvents \cup EndpointEvents

\* newCache
NoCache == [units |-> {}, endpoints |-> {}, meta |-> {}]

IdleWorker == [pc |-> "pull", evnt |-> NoEvent, err |-> FALSE]

\* NewClient: go clnt.proc()
InitClnt ==
    /\ ctxDone = FALSE
    /\ queue = <<>>
    /\ backends = {}
    /\ started = [bk \in Backends |-> 0]
    /\ bkClosed = {}
    /\ cache = NoCache
    /\ clntLock = FALSE
    /\ adders = EmptyBag
    /\ worker = IdleWorker
    /\ clntClose = "idle"
    /\ snapshots = TRUE
    /\ panics = {}

\* The units a URL is bound to in the endpoints index.
BoundTo(c, url) == {id \in UnitIDs : <<url, id>> \in c.endpoints}

\* cache.AddEndpoint without the test for a conflict.
AddEndpointAnyway(c, id, url) ==
    [c EXCEPT !.endpoints = c.endpoints \cup {<<url, id>>}]

\* cache.AddEndpoint: ignored when url is assigned to another unit.
AddEndpoint(c, id, url) ==
    IF BoundTo(c, url) \ {id} # {} THEN c
    ELSE [c EXCEPT !.endpoints = c.endpoints \cup {<<url, id>>}]

\* cache.DelEndpoint: removes the binding if it is the one of id.
DelEndpoint(c, id, url) ==
    [c EXCEPT !.endpoints = c.endpoints \ {<<url, id>>}]

\* cache.AddUnit: inserts if absent.
AddUnit(c, id) == [c EXCEPT !.units = c.units \cup {id}]

\* cache.DelUnit that leaves the endpoints of the unit in the index.
DelUnitOnly(c, id) ==
    [c EXCEPT !.units = c.units \ {id}, !.meta = c.meta \ {id}]

\* cache.DelUnit: removes the unit, with its metadata, and unlinks its
\* endpoints.
DelUnit(c, id) ==
    [units |-> c.units \ {id},
     endpoints |-> {e \in c.endpoints : e[2] # id},
     meta |-> c.meta \ {id}]

\* cache.SetMetadata and cache.Set...Parameters: replaces the field of the
\* unit; meta holds the units that have got one.
SetMetadata(c, id) == [c EXCEPT !.meta = c.meta \cup {id}]

\* The switch of nextEvent: the cache after the update for evnt.  Events
\* for a unit that is not in the cache, AddUnit apart, change nothing.
Update(c, evnt) ==
    CASE evnt.kind = "AddUnit" -> AddUnit(c, evnt.id)
      [] evnt.id \notin c.units -> c
      [] evnt.kind = "DelUnit" -> DelUnit(c, evnt.id)
      [] evnt.kind = "Metadata" -> SetMetadata(c, evnt.id)
      [] evnt.kind = "AddEndpoint" -> AddEndpoint(c, evnt.id, evnt.url)
      [] evnt.kind = "DelEndpoint" -> DelEndpoint(c, evnt.id, evnt.url)
      [] OTHER -> c

\* Eventqueue.Push by a backend that was started: one of the events E,
\* while less than n events wait.
Push(E, n) ==
    /\ Len(queue) < n
    /\ \E bk \in Backends : started[bk] > 0
    /\ \E evnt \in E : queue' = Append(queue, evnt)
    /\ UNCHANGED <<ctxDone, backends, started, bkClosed, cache, clntLock,
                   adders, worker, clntClose, snapshots, panics>>
    /\ UNCHANGED notClnt

\* The context given to NewClient is cancelled.
CtxCancel ==
    /\ ~ctxDone
    /\ ctxDone' = TRUE
    /\ UNCHANGED <<queue, backends, started, bkClosed, cache, clntLock,
                   adders, worker, clntClose, snapshots, panics>>
    /\ UNCHANGED notClnt

\* nextEvent: clnt.queue.pull(clnt.ctx) gives the next event.
Pull ==
    /\ worker.pc = "pull"
    /\ Len(queue) > 0
    /\ worker' = [pc |-> "apply", evnt |-> Head(queue), err |-> FALSE]
    /\ queue' = Tail(queue)
    /\ UNCHANGED <<ctxDone, backends, started, bkClosed, cache, clntLock,
                   adders, clntClose, snapshots, panics>>
    /\ UNCHANGED notClnt

\* nextEvent: clnt.queue.pull(clnt.ctx) gives the error of the cancelled
\* context; nextEvent returns it, the loop of proc ends, done.Done() runs.
PullCancelled ==
    /\ worker.pc = "pull"
    /\ ctxDone
    /\ worker' = [worker EXCEPT !.pc = "done", !.err = TRUE]
    /\ UNCHANGED <<ctxDone, queue, backends, started, bkClosed, cache,
                   clntLock, adders, clntClose, snapshots, panics>>
    /\ UNCHANGED notClnt

\* A mutex that lets everybody in.
LockAlwaysFree == TRUE

\* clnt.lock.Lock() can go through.
LockFree == ~clntLock

\* A nextEvent that returns the error of the cache update.
nextEventPropagates(err) == err

\* nextEvent: what it returns after a cache update that gave err (TRUE: an
\* error): the error is logged and nil is returned.
nextEventReturns(err) == IF err THEN FALSE ELSE err

\* nextEvent from clnt.lock.Lock() to its return, and the test of the loop
\* of proc.
Apply ==
    /\ worker.pc = "apply"
    /\ LockFree
    /\ cache' = Update(cache, worker.evnt)
    /\ \E err \in BOOLEAN :
         worker' = [worker EXCEPT
                      !.err = err,
                      !.pc = IF nextEventReturns(err) THEN "done"
                             ELSE "pull"]
    /\ UNCHANGED <<ctxDone, queue, backends, started, bkClosed, clntLock,
                   adders, clntClose, snapshots, panics>>
    /\ UNCHANGED notClnt

\* A lookup that never finds the backend.
FoundNever(bk) == FALSE

\* AddBackend: _, found := clnt.backends[bk]
Found(bk) == bk \in backends

\* AddBackend(bk): clnt.lock.Lock() and the lookup of bk in clnt.backends.
AddBackendLock ==
    /\ BagCardinality(adders) < NumAdd
    /\ LockFree
    /\ clntLock' = TRUE
    /\ \E bk \in Backends :
         adders' = adders (+) SetToBag({[bk |-> bk,
                                         found |-> Found(bk)]})
    /\ UNCHANGED <<ctxDone, queue, backends, started, bkClosed, cache,
                   worker, clntClose, snapshots, panics>>
    /\ UNCHANGED notClnt

\* AddBackend(bk) after the lookup: the panic for a backend that was
\* found, otherwise the backend is added and bk.Start(clnt.queue) is
\* called; the deferred Unlock runs in both cases.
AddBackend ==
    /\ \E a \in BagToSet(adders) :
         /\ adders' = adders (-) SetToBag({a})
         /\ IF a.found
            THEN /\ panics' = panics \cup {a.bk}
                 /\ UNCHANGED <<backends, started>>
            ELSE /\ UNCHANGED panics
                 /\ backends' = backends \cup {a.bk}
                 /\ started' = [started EXCEPT ![a.bk] = started[a.bk] + 1]
    /\ clntLock' = FALSE
    /\ UNCHANGED <<ctxDone, queue, bkClosed, cache, worker, clntClose,
                   snapshots>>
    /\ UNCHANGED notClnt

\* GetDevices: what it returns as devices (always nil, with a nil error).
GetDevicesResult == {}

\* GetDevices(ctx, m)
GetDevices ==
    /\ snapshots' = (snapshots /\ GetDevicesResult = cache.units)
    /\ UNCHANGED <<ctxDone, queue, backends, started, bkClosed, cache,
                   clntLock, adders, worker, clntClose, panics>>
    /\ UNCHANGED notClnt

\* Client.Close: clnt.cancel()
ClientClose ==
    /\ clntClose = "idle"
    /\ ctxDone' = TRUE
    /\ clntClose' = "wait"
    /\ UNCHANGED <<queue, backends, started, bkClosed, cache, clntLock,
                   adders, worker, snapshots, panics>>
    /\ UNCHANGED notClnt

\* Client.Close: clnt.done.Wait() returns, and Close with it.
ClientCloseWait ==
    /\ clntClose = "wait"
    /\ worker.pc = "done"
    /\ clntClose' = "returned"
    /\ UNCHANGED <<ctxDone, queue, backends, started, bkClosed, cache,
                   clntLock, adders, worker, snapshots, panics>>
    /\ UNCHANGED notClnt

\* The client: the backends push events about units only.
NextClnt ==
    \/ Push(UnitEvents, MaxQueue)
    \/ CtxCancel
    \/ Pull
    \/ PullCancelled
    \/ Apply
    \/ AddBackendLock
    \/ AddBackend
    \/ GetDevices
    \/ ClientClose
    \/ ClientCloseWait

\* The worker and the cache, with events of every kind, pushed one at a
\* time.
NextCache ==
    \/ Push(Events, 1)
    \/ Pull
    \/ Apply
    \/ AddBackendLock
    \/ AddBackend

(***************************************************************************)
(* Part V.  argv: the command line parser and the tokenizer                *)
(*                                                                         *)
(* Strings are sequences of characters, so that prefixes, the dashes of an *)
(* option and the '=' of a long option are computed as the code does.      *)
(* The sources hold the parser twice: parser.go, and an earlier variant    *)
(* at the end of tokenize.go, which keeps no conflicts and requirements    *)
(* and differs in the handling of sub-commands.                            *)
(***************************************************************************)
\* math.MaxInt, cut to the integers of the model checker.
MaxInt == 2147483647

HasPrefix(s, prefix) ==
    Len(prefix) <= Len(s) /\ SubSeq(s, 1, Len(prefix)) = prefix

HasSuffix(s, suffix) ==
    /\ Len(suffix) <= Len(s)
    /\ SubSeq(s, Len(s) - Len(suffix) + 1, Len(s)) = suffix

\* The least number of a set of numbers.
Least(S) == CHOOSE x \in S : \A y \in S : x <= y

\* strings.IndexByte
IndexByte(s, c) ==
    IF \E i \in 1..Len(s) : s[i] = c
    THEN Least({i \in 1..Len(s) : s[i] = c}) - 1
    ELSE -1

Option(name, aliases, conflicts, requires, validate) ==
    [Name |-> name, Aliases |-> aliases, Conflicts |-> conflicts,
     Requires |-> requires, Validate |-> validate]

\* A command with options and two optional parameters: -a requires -b and
\* -c, -b conflicts with -c, -v (alias --vv) takes a value.
CmdParams ==
    [Name |-> "test",
     Options |-> <<
        Option(<<"-", "a">>, <<>>, <<>>,
               << <<"-", "b">>, <<"-", "c">> >>, FALSE),
        Option(<<"-", "b">>, <<>>, << <<"-", "c">> >>, <<>>, FALSE),
        Option(<<"-", "c">>, <<>>, <<>>, <<>>, FALSE),
        Option(<<"-", "v">>, << <<"-", "-", "v", "v">> >>, <<>>, <<>>,
               TRUE) >>,
     Parameters |-> << <<"[", "p", "]">>, <<"[", "q", "]">> >>,
     SubCommands |-> <<>>]

\* A command with the sub-commands ab, abc, ad and xy.
CmdSubs ==
    [Name |-> "top",
     Options |-> << Option(<<"-", "a">>, <<>>, <<>>, <<>>, FALSE) >>,
     Parameters |-> <<>>,
     SubCommands |-> << <<"a", "b">>, <<"a", "b", "c">>, <<"a", "d">>,
                        <<"x", "y">> >>]

Commands == {CmdParams, CmdSubs}

\* The tokens of the command lines given to a command.
Tokens(cmd) ==
    IF cmd = CmdParams
    THEN {<<"-", "a">>, <<"-", "b">>, <<"-", "c">>, <<"-", "v">>,
          <<"-", "a", "c">>, <<"-", "-">>, <<"x">>,
          <<"-", "-", "v", "v", "=", "x">>}
    ELSE {<<"a", "b">>, <<"a">>, <<"x">>, <<"c">>, <<"-", "-">>,
          <<"-", "a">>}

\* The command lines of up to n tokens.
Argvs(cmd, n) == UNION {[1..k -> Tokens(cmd)] : k \in 0..n}

NoErr == [kind |-> "nil", a |-> <<>>, b |-> <<>>]

\* fmt.Errorf of the parser: the message and its operands.
Errorf(kind, a, b) == [kind |-> kind, a |-> a, b |-> b]

NoParser ==
    [pc |-> "none", variant |-> "none", cmd |-> CmdSubs, argv |-> <<>>,
     nextarg |-> 0, arg |-> <<>>, optConflicts |-> <<>>,
     optRequired |-> <<>>, options |-> <<>>, parameters |-> <<>>,
     subcmd |-> 0, subargv |-> <<>>, doneOptions |-> FALSE,
     paramValues |-> <<>>, err |-> NoErr]

\* newParser
newParser(variant, cmd, argv) ==
    [NoParser EXCEPT !.pc = "loop", !.variant = variant, !.cmd = cmd,
                     !.argv = argv]

withValue(opt) == opt.Validate

hasParameters(cmd) == Len(cmd.Parameters) # 0

hasSubCommands(cmd) == Len(cmd.SubCommands) # 0

optional(param) == HasPrefix(param, <<"[">>)

required(param) == ~optional(param)

repeated(param) ==
    \/ HasSuffix(param, <<".", ".", ".">>)
    \/ HasSuffix(param, <<".", ".", ".", "]">>)

paramsMin(cmd) ==
    Cardinality({i \in 1..Len(cmd.Parameters) : required(cmd.Parameters[i])})

paramsMax(cmd) ==
    IF \E i \in 1..Len(cmd.Parameters) : repeated(cmd.Parameters[i])
    THEN MaxInt
    ELSE Len(cmd.Parameters)

isShortOption(arg) == Len(arg) >= 2 /\ arg[1] = "-" /\ arg[2] # "-"

isLongOption(arg) == Len(arg) >= 3 /\ arg[1] = "-" /\ arg[2] = "-"

splitOptVal(arg) ==
    CASE isShortOption(arg) ->
           [name |-> SubSeq(arg, 1, 2), val |-> SubSeq(arg, 3, Len(arg)),
            novalue |-> Len(arg) = 2]
      [] isLongOption(arg) ->
           LET idx == IndexByte(arg, "=") IN
           IF idx >= 0
           THEN [name |-> SubSeq(arg, 1, idx),
                 val |-> SubSeq(arg, idx + 2, Len(arg)), novalue |-> FALSE]
           ELSE [name |-> arg, val |-> <<>>, novalue |-> TRUE]
      [] OTHER -> [name |-> <<>>, val |-> <<>>, novalue |-> FALSE]

\* The names of an option: its Name and its Aliases.
NamesOf(opt) == {opt.Name} \cup SeqToSet(opt.Aliases)

\* findOption: the index of the option, 0 for nil.
findOption(cmd, name) ==
    LET found == {i \in 1..Len(cmd.Options) : name \in NamesOf(cmd.Options[i])}
    IN IF found = {} THEN 0 ELSE Least(found)

\* The indexes of the sub-commands that satisfy Match, in their order.
Matching(cmd, Match(_)) ==
    SelectSeq([i \in 1..Len(cmd.SubCommands) |-> i],
              LAMBDA i : Match(cmd.SubCommands[i]))

\* findSubCommand of the variant in tokenize.go: strings.HasSuffix.
findSubCommandOld(cmd, name) ==
    IF \E i \in 1..Len(cmd.SubCommands) : name = cmd.SubCommands[i]
    THEN Matching(cmd, LAMBDA n : n = name)
    ELSE Matching(cmd, LAMBDA n : HasSuffix(n, name))

\* findSubCommand: the exact match alone, otherwise the inexact ones.
findSubCommand(cmd, name) ==
    IF \E i \in 1..Len(cmd.SubCommands) : name = cmd.SubCommands[i]
    THEN Matching(cmd, LAMBDA n : n = name)
    ELSE Matching(cmd, LAMBDA n : HasPrefix(n, name))

\* done
done(p) == p.nextarg = Len(p.argv) \/ p.subcmd # 0

\* next: the parser after it, with the argument in arg.
next(p) ==
    IF p.nextarg < Len(p.argv)
    THEN [p EXCEPT !.arg = p.argv[p.nextarg + 1], !.nextarg = p.nextarg + 1]
    ELSE [p EXCEPT !.arg = <<>>]

\* nextValue
nextValue(p) ==
    IF ~done(p)
    THEN [p |-> next(p), val |-> next(p).arg, novalue |-> FALSE]
    ELSE [p |-> p, val |-> <<>>, novalue |-> TRUE]

\* A map with the keys of the sequence names added, each with the value v
\* unless the key is there already.
Declared(map, names, v) ==
    [k \in DOMAIN map \cup SeqToSet(names) |->
        IF k \in DOMAIN map THEN map[k] ELSE v]

\* appendOptVal; the validators of the options accept every value.
appendOptVal(p, i, name, value, novalue) ==
    LET opt == p.cmd.Options[i] IN
    IF novalue /\ withValue(opt)
    THEN [p EXCEPT !.err = Errorf("option requires operand", name, <<>>)]
    ELSE IF p.variant = "parser.go" /\ name \in DOMAIN p.optConflicts
    THEN [p EXCEPT !.err = Errorf("option conflicts with", name,
                                  p.optConflicts[name])]
    ELSE [p EXCEPT
            !.options =
                [j \in DOMAIN p.options \cup {i} |->
                    IF j \in DOMAIN p.options
                    THEN [p.options[j] EXCEPT
                            !.values = IF j = i THEN Append(@, value) ELSE @]
                    ELSE [name |-> name, values |-> <<value>>]],
            !.optConflicts =
                IF p.variant = "parser.go"
                THEN Declared(p.optConflicts, opt.Conflicts, name)
                ELSE @,
            !.optRequired =
                IF p.variant = "parser.go"
                THEN Declared(p.optRequired, opt.Requires, name)
                ELSE @]

\* handleShortOption: the loop over the combined short options cs.
RECURSIVE combined(_, _)
combined(p, cs) ==
    IF cs = <<>> \/ p.err # NoErr THEN p
    ELSE LET name2 == <<"-", Head(cs)>>
             opt2 == findOption(p.cmd, name2)
         IN IF opt2 = 0
            THEN [p EXCEPT !.err = Errorf("unknown option", name2, <<>>)]
            ELSE combined(appendOptVal(p, opt2, name2, <<>>, TRUE), Tail(cs))

\* handleShortOption
handleShortOption(p, arg) ==
    LET s == splitOptVal(arg)
        opt == findOption(p.cmd, s.name)
    IN IF opt = 0
       THEN [p EXCEPT !.err = Errorf("unknown option", s.name, <<>>)]
       ELSE IF s.novalue \/ withValue(p.cmd.Options[opt])
       THEN IF s.novalue /\ withValue(p.cmd.Options[opt])
            THEN LET v == nextValue(p)
                 IN appendOptVal(v.p, opt, s.name, v.val, v.novalue)
            ELSE appendOptVal(p, opt, s.name, s.val, s.novalue)
       ELSE combined(p, SubSeq(s.name, 2, 2) \o s.val)

\* handleLongOption
handleLongOption(p, arg) ==
    LET s == splitOptVal(arg)
        opt == findOption(p.cmd, s.name)
    IN IF opt = 0
       THEN [p EXCEPT !.err = Errorf("unknown option", s.name, <<>>)]
       ELSE IF s.novalue /\ withValue(p.cmd.Options[opt])
       THEN LET v == nextValue(p)
            IN appendOptVal(v.p, opt, s.name, v.val, v.novalue)
       ELSE appendOptVal(p, opt, s.name, s.val, s.novalue)

\* handleSubCommand of the variant in tokenize.go: one candidate or more
\* is ambiguous.
handleSubCommandOld(p, arg) ==
    LET subcommands == findSubCommandOld(p.cmd, arg) IN
    CASE Len(subcommands) = 0 ->
           [p EXCEPT !.err = Errorf("unknown sub-command", arg, <<>>)]
      [] Len(subcommands) >= 1 ->
           [p EXCEPT !.err = Errorf("ambiguous sub-command", arg, <<>>)]

\* handleSubCommand
handleSubCommand(p, arg) ==
    LET subcommands == findSubCommand(p.cmd, arg) IN
    CASE Len(subcommands) = 0 ->
           [p EXCEPT !.err = Errorf("unknown sub-command", arg, <<>>)]
      [] Len(subcommands) > 1 ->
           [p EXCEPT !.err = Errorf("ambiguous sub-command", arg, <<>>)]
      [] OTHER ->
           [p EXCEPT !.subcmd = subcommands[1],
                     !.subargv = SubSeq(p.argv, p.nextarg + 1, Len(p.argv))]

\* Options are parsed whatever came before.
optionsAlways(p) == TRUE

\* parse: !doneOptions
optionsOn(p) == ~p.doneOptions

\* parse: the test that sends an argument to handleSubCommand.
toSubCommand(p) ==
    IF p.variant = "parser.go" THEN hasSubCommands(p.cmd)
    ELSE ~p.doneOptions /\ hasSubCommands(p.cmd)

\* parse: the body of the loop for the argument taken by next.
parseArg(p) ==
    LET arg == p.arg IN
    CASE optionsOn(p) /\ arg = <<"-", "-">> ->
           [p EXCEPT !.doneOptions = TRUE]
      [] optionsOn(p) /\ isShortOption(arg) -> handleShortOption(p, arg)
      [] optionsOn(p) /\ isLongOption(arg) -> handleLongOption(p, arg)
      [] toSubCommand(p) ->
           IF p.variant = "parser.go" THEN handleSubCommand(p, arg)
           ELSE handleSubCommandOld(p, arg)
      [] Len(p.paramValues) < paramsMax(p.cmd) ->
           [p EXCEPT !.paramValues = Append(@, arg)]
      [] OTHER -> [p EXCEPT !.err = Errorf("unexpected parameter", arg, <<>>)]

\* buildByName: the names that have values.
byName(p) ==
    UNION {NamesOf(p.cmd.Options[i]) : i \in DOMAIN p.options}
    \cup {p.parameters[i].param : i \in DOMAIN p.parameters}

\* handleParameters, for parameters that are not repeated and have no
\* validator.
handleParameters(p) ==
    [p EXCEPT !.parameters =
        [i \in 1..Len(p.paramValues) |->
            [param |-> p.cmd.Parameters[i], value |-> p.paramValues[i]]]]

\* validateThings: the required options that are missed.
Missed(p) == {name \in DOMAIN p.optRequired : name \notin byName(p)}

\* parse after its loop, up to validateThings.
parseTail(p) ==
    IF Len(p.paramValues) < paramsMin(p.cmd)
    THEN [p EXCEPT !.err = Errorf("missed parameter",
                                  p.cmd.Parameters[Len(p.paramValues) + 1],
                                  <<>>)]
    ELSE IF hasSubCommands(p.cmd) /\ p.subcmd = 0
    THEN [p EXCEPT !.err = Errorf("missed sub-command name", <<>>, <<>>)]
    ELSE IF hasParameters(p.cmd) THEN handleParameters(p)
    ELSE p

\* What a run of the parser gives.
Outcome(p) ==
    [err |-> p.err, options |-> p.options, parameters |-> p.parameters,
     subcmd |-> p.subcmd, subargv |-> p.subargv]

InitArgv ==
    /\ prs = NoParser
    /\ prev = <<>>

\* Command.Apply: newParser(cmd, argv) for one of the commands and a
\* command line, in one of the variants of the parser.
CommandApply ==
    /\ prs.pc = "none"
    /\ \E variant \in {"parser.go", "tokenize.go"}, cmd \in Commands :
         \E argv \in Argvs(cmd, MaxArgv) :
            prs' = newParser(variant, cmd, argv)
    /\ UNCHANGED prev
    /\ UNCHANGED notArgv

\* parse: one turn of its loop.
parseLoop ==
    /\ prs.pc = "loop"
    /\ ~done(prs)
    /\ LET p == parseArg(next(prs))
       IN prs' = IF p.err # NoErr THEN [p EXCEPT !.pc = "done"] ELSE p
    /\ UNCHANGED prev
    /\ UNCHANGED notArgv

\* parse from the end of its loop to its return: validateThings ranges
\* over the map optRequired, in an order that Go leaves open, and returns
\* at the first required option that is missed.
parseEnd ==
    /\ prs.pc = "loop"
    /\ done(prs)
    /\ LET p == parseTail(prs) IN
       IF p.err # NoErr \/ p.variant # "parser.go" \/ Missed(p) = {}
       THEN prs' = [p EXCEPT !.pc = "done"]
       ELSE \E name \in Missed(p) :
               prs' = [p EXCEPT !.pc = "done",
                                !.err = Errorf("missed option", name,
                                               p.optRequired[name])]
    /\ UNCHANGED prev
    /\ UNCHANGED notArgv

\* The same command line is given to the same command once more.
ApplyAgain ==
    /\ prs.pc = "done"
    /\ prev = <<>>
    /\ prev' = <<Outcome(prs)>>
    /\ prs' = newParser(prs.variant, prs.cmd, prs.argv)
    /\ UNCHANGED notArgv

NextArgv ==
    \/ CommandApply
    \/ parseLoop
    \/ parseEnd
    \/ ApplyAgain

\* The characters of the lines given to Tokenize.
Chars == {"a", " ", "\"", "\\", "x", "1"}

\* The code point of a character.
Code(c) ==
    CASE c = "a" -> 97
      [] c = " " -> 32
      [] c = "\"" -> 34
      [] c = "\\" -> 92
      [] c = "x" -> 120
      [] c = "1" -> 49

\* The lines of up to n characters.
Lines(n) == UNION {[1..k -> Chars] : k \in 0..n}

\* unicode.IsSpace
IsSpace(c) == c = " "

\* octal: the value of the digit, -1 if c is none.
octal(c) == IF c = "1" THEN 1 ELSE -1

\* hexadecimal: the value of the digit, -1 if c is none.
hexadecimal(c) ==
    CASE c = "1" -> 1
      [] c = "a" -> 10
      [] OTHER -> -1

\* byte(acc)
byte(acc) == acc % 256

NoTokenizer ==
    [pc |-> "none", line |-> <<>>, pos |-> 0, state |-> "tkSpace",
     token |-> <<>>, acc |-> 0, tokens |-> <<>>, result |-> <<>>,
     err |-> "nil"]

InitTokenize == tk = NoTokenizer

\* Tokenize(line): the call, for one of the lines.
Tokenize ==
    /\ tk.pc = "none"
    /\ \E line \in Lines(MaxLine) :
         tk' = [NoTokenizer EXCEPT !.pc = "loop", !.line = line]
    /\ UNCHANGED notTk

\* Tokenize: the states tkSpace and tkWord of its loop.
tkWord(t, c) ==
    IF c = "\"" THEN [t EXCEPT !.state = "tkQuote"]
    ELSE IF IsSpace(c)
    THEN IF t.state # "tkSpace"
         THEN [t EXCEPT !.tokens = Append(@, t.token), !.token = <<>>,
                        !.state = "tkSpace"]
         ELSE t
    ELSE [t EXCEPT !.state = "tkWord", !.token = Append(@, Code(c))]

\* Tokenize: the state tkQuote.
tkQuote(t, c) ==
    IF c = "\\" THEN [t EXCEPT !.state = "tkQuoteBs"]
    ELSE IF c = "\"" THEN [t EXCEPT !.state = "tkWord"]
    ELSE [t EXCEPT !.token = Append(@, Code(c))]

\* Tokenize: the state tkQuoteBs, for the characters of Chars.
tkQuoteBs(t, c) ==
    CASE c = "x" -> [t EXCEPT !.acc = 0, !.state = "tkHex1"]
      [] c = "1" -> [t EXCEPT !.acc = Code(c) - 48, !.state = "tkOct1"]
      [] c = "a" -> [t EXCEPT !.token = Append(@, 7), !.state = "tkQuote"]
      [] OTHER -> [t EXCEPT !.token = Append(@, Code(c)),
                            !.state = "tkQuote"]

\* Tokenize: the states of a number, of base 2^bits, that has its first
\* digit (tkHex1, tkOct1) or its second (tkHex2, tkOct2).
tkNumber(t, c, n, bits, second) ==
    IF n >= 0
    THEN LET acc == t.acc * (2 ^ bits) + n IN
         IF t.state # second
         THEN [t EXCEPT !.acc = acc, !.state = second]
         ELSE [t EXCEPT !.acc = acc, !.token = Append(@, byte(acc)),
                        !.state = "tkQuote"]
    ELSE IF c = "\""
    THEN [t EXCEPT !.token = Append(@, byte(t.acc)), !.state = "tkWord"]
    ELSE [t EXCEPT !.token = Append(Append(@, byte(t.acc)), Code(c)),
                   !.state = "tkQuote"]

\* Tokenize: one turn of its loop over the characters of the line.
tokenizeChar ==
    /\ tk.pc = "loop"
    /\ tk.pos < Len(tk.line)
    /\ LET c == tk.line[tk.pos + 1]
           t == [tk EXCEPT !.pos = tk.pos + 1]
       IN tk' = CASE t.state \in {"tkSpace", "tkWord"} -> tkWord(t, c)
                  [] t.state = "tkQuote" -> tkQuote(t, c)
                  [] t.state = "tkQuoteBs" -> tkQuoteBs(t, c)
                  [] t.state \in {"tkHex1", "tkHex2"} ->
                       tkNumber(t, c, hexadecimal(c), 4, "tkHex2")
                  [] t.state \in {"tkOct1", "tkOct2"} ->
                       tkNumber(t, c, octal(c), 3, "tkOct2")
    /\ UNCHANGED notTk

\* Tokenize: what it returns as tokens at the end of a line that ends
\* within a quoted string (nil).
Unterminated(t) == <<>>

\* Tokenize: the switch after the loop, and the return.
tokenizeEnd ==
    /\ tk.pc = "loop"
    /\ tk.pos = Len(tk.line)
    /\ tk' = CASE tk.state = "tkWord" ->
                    [tk EXCEPT !.pc = "done",
                               !.tokens = Append(@, tk.token),
                               !.result = Append(tk.tokens, tk.token)]
               [] tk.state = "tkSpace" ->
                    [tk EXCEPT !.pc = "done", !.result = tk.tokens]
               [] OTHER ->
                    [tk EXCEPT !.pc = "done", !.result = Unterminated(tk),
                               !.err = "unterminated string"]
    /\ UNCHANGED notTk

NextTokenize ==
    \/ Tokenize
    \/ tokenizeChar
    \/ tokenizeEnd

(***************************************************************************)
(* Part VI.  abstract.ScannerRequest                                       *)
(*                                                                         *)
(* Validate is a function of the request and of the capabilities of the    *)
(* scanner.  The enumerations, optional.Val, generic.Bitset and Range are  *)
(* declared outside of scanrequest.go: the values of the enumerations     *)
(* count up from the Unset value, which is the zero value, to the max      *)
(* value, a Bitset is the set of its members, an optional.Val is a         *)
(* sequence that is empty when the value is missed.                        *)
(***************************************************************************)
InputUnset == 0
InputPlaten == 1
InputADF == 2
inputMax == 3

ADFModeUnset == 0
ADFModeSimplex == 1
ADFModeDuplex == 2
adfModeMax == 3

ColorModeUnset == 0
ColorModeBinary == 1
ColorModeMono == 2
ColorModeColor == 3
colorModeMax == 4

DepthUnset == 0
Depth8 == 1
Depth16 == 2
depthMax == 3

BinaryRenderingUnset == 0
BinaryRenderingHalftone == 1
BinaryRenderingThreshold == 2
binaryRenderingMax == 3

\* Of the CCD channels the model uses the first and NTSC.
CCDChannelUnset == 0
CCDChannelRed == 1
CCDChannelNTSC == 4
ccdChannelMax == 6

\* The general parameters of a ScannerRequest that Validate looks at.
EnumFields ==
    {"Input", "ADFMode", "ColorMode", "Depth", "BinaryRendering",
     "CCDChannel"}

\* The image processing parameters, in the order Validate checks them.
ProcOrder ==
    <<"Brightness", "Contrast", "Gamma", "Highlight", "NoiseRemoval",
      "Shadow", "Sharpen", "Compression">>

OptFields == {ProcOrder[i] : i \in DOMAIN ProcOrder} \cup {"Threshold"}

ReqFields == EnumFields \cup OptFields

\* The zero ScannerRequest: every parameter is missed.
ZeroRequest ==
    [k \in ReqFields |-> IF k \in EnumFields THEN 0 ELSE <<>>]

\* The values a request of the model gives to a parameter: for an
\* enumeration a negative value, values of the enumeration and its max
\* value; for an optional integer 0, a value off the grid of the range and
\* a value above it.
ValuesOf(k) ==
    CASE k = "Input" -> <<-1, InputPlaten, InputADF, inputMax>>
      [] k = "ADFMode" -> <<-1, ADFModeSimplex, ADFModeDuplex, adfModeMax>>
      [] k = "ColorMode" ->
            <<ColorModeBinary, ColorModeMono, ColorModeColor, colorModeMax>>
      [] k = "Depth" -> <<-1, Depth8, Depth16, depthMax>>
      [] k = "BinaryRendering" ->
            <<BinaryRenderingHalftone, BinaryRenderingThreshold,
              binaryRenderingMax>>
      [] k = "CCDChannel" ->
            <<CCDChannelRed, CCDChannelNTSC, ccdChannelMax>>
      [] OTHER -> << <<0>>, <<3>>, <<50>> >>

\* The requests with at most n parameters set.
ScannerRequests(n) ==
    UNION { UNION { { [k \in ReqFields |->
                         IF k \in S THEN ValuesOf(k)[f[k]]
                                    ELSE ZeroRequest[k]] } :
                    f \in {g \in [S -> 1..4] :
                             \A k \in S : g[k] <= Len(ValuesOf(k))} } :
            S \in {T \in SUBSET ReqFields : Cardinality(T) <= n} }

\* Range: the zero Range stands for a parameter the scanner has not.
NoRange == [Min |-> 0, Max |-> 0, Step |-> 0]

RangeOf(min, max, step) == [Min |-> min, Max |-> max, Step |-> step]

\* A profile of an input: the color modes, depths, binary renderings and
\* CCD channels that go together.
Profile(cm, dp, br, ccd) ==
    [ColorModes |-> cm, Depths |-> dp, BinaryRenderings |-> br,
     CCDChannels |-> ccd]

\* InputCapabilities; a *InputCapabilities is a sequence, empty when nil.
InputCapabilities(intents, profiles) ==
    <<[Intents |-> intents, Profiles |-> profiles]>>

NoRanges ==
    [k \in OptFields |-> NoRange]

\* A scanner with no input at all.
CapsNone ==
    [Platen |-> <<>>, ADFSimplex |-> <<>>, ADFDuplex |-> <<>>,
     Ranges |-> NoRanges]

\* A flatbed scanner: gray and color, 8 bit, brightness and contrast.
CapsPlaten ==
    [Platen |-> InputCapabilities({},
                  <<Profile({ColorModeMono, ColorModeColor}, {Depth8}, {},
                            {CCDChannelRed})>>),
     ADFSimplex |-> <<>>, ADFDuplex |-> <<>>,
     Ranges |-> [k \in OptFields |->
                   IF k \in {"Brightness", "Contrast"}
                   THEN RangeOf(0, 10, 2) ELSE NoRange]]

\* A sheet-fed scanner, one side: black and white with halftone and a
\* threshold, every image processing parameter.
CapsADF ==
    [Platen |-> <<>>,
     ADFSimplex |-> InputCapabilities({},
                  <<Profile({ColorModeBinary}, {},
                            {BinaryRenderingHalftone}, {})>>),
     ADFDuplex |-> <<>>,
     Ranges |-> [k \in OptFields |-> RangeOf(0, 10, 0)]]

\* A scanner with a flatbed and a two-sided feeder, two profiles each.
CapsAll ==
    [Platen |-> InputCapabilities({},
                  <<Profile({ColorModeBinary}, {},
                            {BinaryRenderingThreshold}, {CCDChannelNTSC}),
                    Profile({ColorModeMono}, {Depth8, Depth16}, {},
                            {CCDChannelRed})>>),
     ADFSimplex |-> <<>>,
     ADFDuplex |-> InputCapabilities({},
                  <<Profile({ColorModeColor}, {Depth8}, {}, {})>>),
     Ranges |-> [k \in OptFields |->
                   IF k = "Compression" THEN NoRange
                                        ELSE RangeOf(0, 10, 2)]]

ScannerCapabilities == {CapsNone, CapsPlaten, CapsADF, CapsAll}

\* error
NoError == [err |-> "nil", name |-> "", value |-> 0]

ErrParam(err, name, value) == [err |-> err, name |-> name, value |-> value]

\* Range.validate: a missed value passes; a value of a parameter the
\* scanner has not is unsupported; a value out of the range, or off its
\* grid when the range has a step, is invalid.
rangeWithin(r, v) ==
    /\ r.Min <= v
    /\ v <= r.Max
    /\ r.Step # 0 => (v - r.Min) % r.Step = 0

rangeValidate(r, name, v) ==
    CASE v = <<>> -> NoError
      [] r = NoRange -> ErrParam("ErrUnsupportedParam", name, v[1])
      [] ~rangeWithin(r, v[1]) -> ErrParam("ErrInvalidParam", name, v[1])
      [] OTHER -> NoError

\* Validate, the overall scanner parameters.
inputs(scancaps) ==
    (IF scancaps.Platen # <<>> THEN {InputPlaten} ELSE {})
    \cup (IF scancaps.ADFSimplex # <<>> \/ scancaps.ADFDuplex # <<>>
          THEN {InputADF} ELSE {})

adfmodes(scancaps) ==
    IF scancaps.ADFSimplex # <<>> \/ scancaps.ADFDuplex # <<>>
    THEN (IF scancaps.ADFSimplex # <<>> THEN {ADFModeSimplex} ELSE {})
         \cup (IF scancaps.ADFDuplex # <<>> THEN {ADFModeDuplex} ELSE {})
    ELSE {}

\* The profiles of the inputs that are not nil.
profilesOf(scancaps) ==
    LET inpcaps == scancaps.Platen \o scancaps.ADFSimplex
                   \o scancaps.ADFDuplex
    IN  UNION { {inpcaps[i].Profiles[j] : j \in DOMAIN inpcaps[i].Profiles} :
                i \in DOMAIN inpcaps }

colorModes(scancaps) == UNION {prof.ColorModes : prof \in profilesOf(scancaps)}

depths(scancaps) == UNION {prof.Depths : prof \in profilesOf(scancaps)}

binrend(scancaps) ==
    UNION {prof.BinaryRenderings : prof \in profilesOf(scancaps)}

ccdChannels(scancaps) ==
    UNION {prof.CCDChannels : prof \in profilesOf(scancaps)}

\* One switch of Validate over a parameter that is an enumeration.
switchParam(v, unset, max, set, name) ==
    CASE v = unset -> NoError
      [] v < 0 \/ v >= max -> ErrParam("ErrInvalidParam", name, v)
      [] ~(v \in set) -> ErrParam("ErrUnsupportedParam", name, v)
      [] OTHER -> NoError

\* Validate, the image processing parameters from the i-th on.
RECURSIVE validateProc(_, _, _)
validateProc(rq, scancaps, i) ==
    IF i > Len(ProcOrder) THEN NoError
    ELSE LET err == rangeValidate(scancaps.Ranges[ProcOrder[i]],
                                  ProcOrder[i], rq[ProcOrder[i]])
         IN  IF err = NoError THEN validateProc(rq, scancaps, i + 1)
                              ELSE err

\* Validate, from the switch over req.ColorMode to the check of Depth.
validateByColorMode(rq, scancaps) ==
    CASE rq.ColorMode = ColorModeBinary ->
            LET err == switchParam(rq.BinaryRendering,
                           BinaryRenderingUnset, binaryRenderingMax,
                           binrend(scancaps), "BinaryRendering")
            IN  IF err # NoError THEN err
                ELSE rangeValidate(scancaps.Ranges.Threshold, "Threshold",
                                   rq.Threshold)
      [] rq.ColorMode \in {ColorModeMono, ColorModeColor} ->
            switchParam(rq.Depth, DepthUnset, depthMax, depths(scancaps),
                        "Depth")
      [] OTHER -> NoError

\* ScannerRequest.Validate
ValidateRequest(rq, scancaps) ==
    LET errInput == switchParam(rq.Input, InputUnset, inputMax,
                                inputs(scancaps), "Input")
        errADFMode ==
            IF rq.Input # InputADF THEN NoError
            ELSE switchParam(rq.ADFMode, ADFModeUnset, adfModeMax,
                             adfmodes(scancaps), "ADFMode")
        errColorMode == switchParam(rq.ColorMode, ColorModeUnset,
                                    colorModeMax, colorModes(scancaps),
                                    "ColorMode,")
        errByColorMode == validateByColorMode(rq, scancaps)
        errCCDChannel == switchParam(rq.CCDChannel, CCDChannelUnset,
                                     ccdChannelMax, ccdChannels(scancaps),
                                     "CCDChannel")
    IN  CASE errInput # NoError -> errInput
          [] errADFMode # NoError -> errADFMode
          [] errColorMode # NoError -> errColorMode
          [] errByColorMode # NoError -> errByColorMode
          [] errCCDChannel # NoError -> errCCDChannel
          [] OTHER -> validateProc(rq, scancaps, 1)

NoValidate == [pc |-> "idle"]

InitValidate == vld = NoValidate

\* A caller validates a request against the capabilities of a scanner.
Validate ==
    /\ vld.pc = "idle"
    /\ \E rq \in ScannerRequests(MaxSet), scancaps \in ScannerCapabilities :
          vld' = [pc |-> "done", rq |-> rq, scancaps |-> scancaps,
                  err |-> ValidateRequest(rq, scancaps)]
    /\ UNCHANGED notVld

NextValidate == Validate

(***************************************************************************)
(* Part VII.  wsdd, the reception of UDP multicasts                        *)
(*                                                                         *)
(* The source has two receive tasks: backend.mconnProc, started by         *)
(* backend.Start and stopped by backend.Close, and querier.procMconn,      *)
(* started by querier.Start and stopped by querier.Close.  Each owner runs *)
(* one task per socket, mconn4 and mconn6.  mconn.RecvFrom and             *)
(* mconn.IsClosed are declared outside of the source at hand: RecvFrom     *)
(* returns a datagram or an error, and an error once the socket is closed; *)
(* IsClosed tells that Close was called on the socket.                     *)
(***************************************************************************)
\* The sockets: 1 is mconn4, 2 is mconn6.
Mconns == {1, 2}

\* What RecvFrom returns from a socket that is open: a WSD message, a
\* message of this host that was looped back, a datagram that does not
\* decode, or an error.
Datagrams == {"msg", "looped", "bad", "error"}

\* A receive task before its first RecvFrom.
NewTask ==
    [pc |-> "recv", res |-> "none", log |-> "none",
     seen |-> [called |-> FALSE, closed |-> FALSE]]

InitMconn ==
    /\ rxOwner = "none"
    /\ backClosing = FALSE
    /\ mcClosed = [mc \in Mconns |-> FALSE]
    /\ task = [mc \in Mconns |-> NewTask]
    /\ rxClose = "idle"
    /\ recvd = 0

\* backend.Start / querier.Start: the receive tasks are started.
mconnStart ==
    /\ rxOwner = "none"
    /\ \E owner \in {"backend", "querier"} : rxOwner' = owner
    /\ UNCHANGED <<backClosing, mcClosed, task, rxClose, recvd>>
    /\ UNCHANGED notMconn

\* mc.RecvFrom returns to the task of mc.
RecvFrom(mc) ==
    /\ rxOwner # "none"
    /\ task[mc].pc = "recv"
    /\ IF mcClosed[mc]
       THEN /\ task' = [task EXCEPT ![mc].pc = "got", ![mc].res = "error"]
            /\ UNCHANGED recvd
       ELSE /\ recvd < MaxRecv
            /\ recvd' = recvd + 1
            /\ \E res \in Datagrams :
                  task' = [task EXCEPT ![mc].pc = "got", ![mc].res = res]
    /\ UNCHANGED <<rxOwner, backClosing, mcClosed, rxClose>>
    /\ UNCHANGED notMconn

\* mconn.IsClosed
IsClosed(mc) == mcClosed[mc]

\* What the task sees of Close when it looks at what RecvFrom returned.
SeenOf(mc) == [called |-> rxClose # "idle", closed |-> mcClosed[mc]]

\* One turn of the loop of a task: it goes on or returns, with what it
\* logged above the debug level.
Turn(mc, pc, log) ==
    task' = [task EXCEPT ![mc].pc = pc, ![mc].log = log,
                         ![mc].seen = SeenOf(mc)]

\* backend.mconnProc, from the return of RecvFrom on.
mconnProc(mc) ==
    /\ rxOwner = "backend"
    /\ task[mc].pc = "got"
    /\ CASE backClosing -> Turn(mc, "done", "none")
         [] task[mc].res = "error" -> Turn(mc, "done", "error")
         [] task[mc].res = "bad" -> Turn(mc, "recv", "warning")
         [] OTHER -> Turn(mc, "recv", "none")
    /\ UNCHANGED <<rxOwner, backClosing, mcClosed, rxClose, recvd>>
    /\ UNCHANGED notMconn

\* querier.Input: a looped message is dropped, a datagram that does not
\* decode gives a warning, a message is dispatched.
Input(res) ==
    CASE res = "looped" -> "none"
      [] res = "bad" -> "warning"
      [] OTHER -> "none"

\* querier.procMconn, from the return of RecvFrom on.
procMconn(mc) ==
    /\ rxOwner = "querier"
    /\ task[mc].pc = "got"
    /\ CASE IsClosed(mc) -> Turn(mc, "done", "none")
         [] task[mc].res = "error" -> Turn(mc, "recv", "error")
         [] OTHER -> Turn(mc, "recv", Input(task[mc].res))
    /\ UNCHANGED <<rxOwner, backClosing, mcClosed, rxClose, recvd>>
    /\ UNCHANGED notMconn

\* backend.Close: closing.Store(true), cancel.
\* querier.Close: cancelNetmon, doneNetmon.Wait.
mconnCloseBegin ==
    /\ rxOwner # "none"
    /\ rxClose = "idle"
    /\ rxClose' = "mconn4"
    /\ backClosing' = (rxOwner = "backend")
    /\ UNCHANGED <<rxOwner, mcClosed, task, recvd>>
    /\ UNCHANGED notMconn

\* Close: mconn4.Close, then mconn6.Close.
mconnClose ==
    /\ rxClose \in {"mconn4", "mconn6"}
    /\ mcClosed' = [mcClosed EXCEPT ![IF rxClose = "mconn4" THEN 1 ELSE 2] = TRUE]
    /\ rxClose' = IF rxClose = "mconn4" THEN "mconn6" ELSE "wait"
    /\ UNCHANGED <<rxOwner, backClosing, task, recvd>>
    /\ UNCHANGED notMconn

\* Close: done.Wait / doneMconn.Wait returns when both tasks have returned.
mconnCloseWait ==
    /\ rxClose = "wait"
    /\ \A mc \in Mconns : task[mc].pc = "done"
    /\ rxClose' = "done"
    /\ UNCHANGED <<rxOwner, backClosing, mcClosed, task, recvd>>
    /\ UNCHANGED notMconn

NextMconn ==
    \/ mconnStart
    \/ \E mc \in Mconns : RecvFrom(mc)
    \/ \E mc \in Mconns : mconnProc(mc)
    \/ \E mc \in Mconns : procMconn(mc)
    \/ mconnCloseBegin
    \/ mconnClose
    \/ mconnCloseWait

(***************************************************************************)
(* Part VIII.  xml, the encoder and the decoder of element trees           *)
(*                                                                         *)
(* Strings are sequences of characters.  The document the encoder writes   *)
(* is the sequence of the tokens it gives to encoding/xml; the decoder of  *)
(* encoding/xml gives them back with the names of the elements read as    *)
(* XML reads them.  Element, Namespace and nsPrefix are declared outside   *)
(* of the source at hand.                                                  *)
(***************************************************************************)
\* Namespace: pairs of URL and prefix, in order; two prefixes of the model
\* stand for the same URL.
NsMap ==
    <<[URL |-> <<"U">>, Prefix |-> <<"a">>],
      [URL |-> <<"U">>, Prefix |-> <<"b">>]>>

\* Namespace.ByURL: the prefix of the first entry with the URL.
ByURL(ns, url) ==
    LET S == {i \in DOMAIN ns : ns[i].URL = url}
    IN  IF S = {} THEN [ok |-> FALSE, prefix |-> <<>>]
        ELSE [ok |-> TRUE, prefix |-> ns[Least(S)].Prefix]

\* Namespace.ByPrefix: the URL of the first entry with the prefix.
ByPrefix(ns, prefix) ==
    LET S == {i \in DOMAIN ns : ns[i].Prefix = prefix}
    IN  IF S = {} THEN [ok |-> FALSE, url |-> <<>>]
        ELSE [ok |-> TRUE, url |-> ns[Least(S)].URL]

\* nsPrefix: the prefix of a name, if the name has one.
nsPrefix(name) ==
    LET i == IndexByte(name, ":")
    IN  IF i < 0 THEN [ok |-> FALSE, prefix |-> <<>>]
        ELSE [ok |-> TRUE, prefix |-> SubSeq(name, 1, i)]

\* strings.TrimSpace / bytes.TrimSpace
TrimSpace(s) ==
    LET S == {i \in DOMAIN s : s[i] # " "}
    IN  IF S = {} THEN <<>>
        ELSE SubSeq(s, Least(S), CHOOSE x \in S : \A y \in S : y <= x)

\* Element, as far as Encode reads it.
Element(name, text, children) ==
    [Name |-> name, Text |-> text, Attrs |-> <<>>, Children |-> children]

\* The names and the texts of the elements a program builds: no prefix,
\* the two prefixes of the namespace, a prefix the namespace has not.
ElementNames ==
    {<<"e">>, <<"a", ":", "e">>, <<"b", ":", "e">>, <<"x", ":", "e">>}

ElementTexts == {<<>>, <<"t">>, <<" ", "t">>}

\* The trees of n elements and the sequences of trees of n elements in all.
RECURSIVE ElementsOf(_), ForestsOf(_)
ElementsOf(n) ==
    {Element(name, text, children) :
        name \in ElementNames, text \in ElementTexts,
        children \in ForestsOf(n - 1)}

ForestsOf(n) ==
    IF n = 0 THEN {<<>>}
    ELSE UNION { {<<t>> \o f : t \in ElementsOf(k), f \in ForestsOf(n - k)} :
                 k \in 1..n }

\* The trees of at most n elements.
Elements(n) == UNION {ElementsOf(k) : k \in 1..n}

\* Element.Iterate: the element and the elements below it, as Children
\* leads to them.
RECURSIVE Iterate(_), IterateAll(_, _)
Iterate(root) == <<root>> \o IterateAll(root.Children, 1)

IterateAll(children, i) ==
    IF i > Len(children) THEN <<>>
    ELSE Iterate(children[i]) \o IterateAll(children, i + 1)

\* namespaceUsed, over the names of the elements and of their attributes
\* from the i-th on.
RECURSIVE namesOf(_, _), usedFrom(_, _, _, _, _)
namesOf(attrs, i) ==
    IF i > Len(attrs) THEN <<>>
    ELSE <<attrs[i].Name>> \o namesOf(attrs, i + 1)

usedFrom(names, i, ns, inuse, out) ==
    IF i > Len(names) THEN out
    ELSE LET p == nsPrefix(names[i])
             url == ByPrefix(ns, p.prefix)
         IN  IF p.ok /\ p.prefix \notin inuse
             THEN usedFrom(names, i + 1, ns, inuse \cup {p.prefix},
                           IF url.ok
                           THEN Append(out, [URL |-> url.url,
                                             Prefix |-> p.prefix])
                           ELSE out)
             ELSE usedFrom(names, i + 1, ns, inuse, out)

RECURSIVE allNames(_, _)
allNames(elems, i) ==
    IF i > Len(elems) THEN <<>>
    ELSE <<elems[i].Name>> \o namesOf(elems[i].Attrs, 1)
         \o allNames(elems, i + 1)

\* namespaceUsed
namespaceUsed(root, ns) == usedFrom(allNames(Iterate(root), 1), 1, ns, {}, <<>>)

\* encodeRecursive: the tokens of the element and of its children.
RECURSIVE encodeRecursive(_), encodeChildren(_, _)
encodeRecursive(root) ==
    LET text == TrimSpace(root.Text)
    IN  <<[tok |-> "StartElement", name |-> root.Name, attrs |-> root.Attrs]>>
        \o (IF text # <<>> THEN <<[tok |-> "CharData", data |-> text]>>
                           ELSE <<>>)
        \o encodeChildren(root.Children, 1)
        \o <<[tok |-> "EndElement", name |-> root.Name]>>

encodeChildren(children, i) ==
    IF i > Len(children) THEN <<>>
    ELSE encodeRecursive(children[i]) \o encodeChildren(children, i + 1)

\* Element.encode, compact.
encode(root, ns) ==
    LET nsused == namespaceUsed(root, ns)
        nsattrs == [i \in DOMAIN nsused |->
                      [Name |-> <<"x", "m", "l", "n", "s", ":">>
                                \o nsused[i].Prefix,
                       Value |-> nsused[i].URL]]
    IN  <<[tok |-> "ProcInst"]>>
        \o encodeRecursive([root EXCEPT !.Attrs = nsattrs \o root.Attrs])

\* encoding/xml: a name of an element begins with a letter, '_' or ':'.
isName(name) == name # <<>> /\ name[1] # "-"

\* encoding/xml: the namespace declarations of the start tag of the root.
xmlnsOf(doc) ==
    LET starts == {i \in DOMAIN doc : doc[i].tok = "StartElement"}
        attrs == IF starts = {} THEN <<>> ELSE doc[Least(starts)].attrs
    IN  [i \in {j \in DOMAIN attrs :
                  HasPrefix(attrs[j].Name, <<"x", "m", "l", "n", "s", ":">>)}
           |-> attrs[i]]

\* encoding/xml: the xml.Name of the name of a tag: the part before the
\* colon is the space, replaced with the URL declared for it, if any.
xmlName(name, doc) ==
    LET p == nsPrefix(name)
        decl == xmlnsOf(doc)
        S == {i \in DOMAIN decl :
                decl[i].Name = <<"x", "m", "l", "n", "s", ":">> \o p.prefix}
    IN  IF ~p.ok THEN [Space |-> <<>>, Local |-> name]
        ELSE [Space |-> IF S = {} THEN p.prefix ELSE decl[Least(S)].Value,
              Local |-> SubSeq(name, Len(p.prefix) + 2, Len(name))]

\* The element p and the elements above it, as Parent leads to them.
RECURSIVE parentsOf(_, _)
parentsOf(elements, p) ==
    IF p = 0 THEN {} ELSE {p} \cup parentsOf(elements, elements[p].Parent)

\* Decode, the case xml.StartElement.
decodeStart(ns, t, st) ==
    LET url == ByURL(ns, t.Space)
        prefix == IF t.Space # <<>>
                  THEN (IF url.ok THEN url.prefix ELSE <<"-">>)
                  ELSE <<>>
        name == (IF prefix # <<>> THEN prefix \o <<":">> ELSE <<>>)
                \o t.Local
        path == st.path \o <<"/">> \o name
        new == Len(st.elements) + 1
        above == parentsOf(st.elements, st.elem)
    IN  [path |-> path,
         elem |-> new,
         elements |->
             Append([i \in DOMAIN st.elements |->
                       IF i \in above
                       THEN [st.elements[i] EXCEPT
                               !.Children = Append(@, new)]
                       ELSE st.elements[i]],
                    [Name |-> name, Path |-> path, Text |-> <<>>,
                     Parent |-> st.elem, Children |-> <<>>])]

\* Decode, the case xml.EndElement.
decodeEnd(st) ==
    LET parent == st.elements[st.elem].Parent
    IN  [st EXCEPT
            !.elem = parent,
            !.path = IF parent # 0
                     THEN SubSeq(st.path, 1, Len(st.elements[parent].Path))
                     ELSE <<>>]

\* Decode, the case xml.CharData.
decodeCharData(data, st) ==
    IF st.elem # 0
    THEN [st EXCEPT !.elements[st.elem].Text = TrimSpace(data)]
    ELSE st

\* Decode, the loop over the tokens from the i-th on: the elements, or the
\* error of the decoder of encoding/xml.
RECURSIVE decodeFrom(_, _, _, _)
decodeFrom(ns, doc, i, st) ==
    IF i > Len(doc) THEN [elements |-> st.elements, err |-> "nil"]
    ELSE CASE doc[i].tok \in {"StartElement", "EndElement"}
                /\ ~isName(doc[i].name) ->
                    [elements |-> <<>>, err |-> "invalid XML name"]
           [] doc[i].tok = "StartElement" ->
                    decodeFrom(ns, doc, i + 1,
                               decodeStart(ns, xmlName(doc[i].name, doc), st))
           [] doc[i].tok = "EndElement" ->
                    decodeFrom(ns, doc, i + 1, decodeEnd(st))
           [] doc[i].tok = "CharData" ->
                    decodeFrom(ns, doc, i + 1,
                               decodeCharData(doc[i].data, st))
           [] OTHER -> decodeFrom(ns, doc, i + 1, st)

\* Decode
DecodeDocument(ns, doc) ==
    decodeFrom(ns, doc, 1, [elements |-> <<>>, elem |-> 0, path |-> <<>>])

\* The Element a decoded element is for Encode: Children as Decode left it.
RECURSIVE ElementAt(_, _)
ElementAt(elements, i) ==
    Element(elements[i].Name, elements[i].Text,
            [j \in DOMAIN elements[i].Children |->
               ElementAt(elements, elements[i].Children[j])])

NoXML == [pc |-> "idle"]

InitXML == xm = NoXML

\* A program builds a tree of elements.
NewElement ==
    /\ xm.pc = "idle"
    /\ \E t \in Elements(MaxElems) :
          xm' = [pc |-> "tree", round |-> 1, root |-> t, doc |-> <<>>,
                 first |-> <<>>, out |-> [elements |-> <<>>, err |-> "nil"]]
    /\ UNCHANGED notXML

\* root.Encode(w, ns)
Encode ==
    /\ xm.pc = "tree"
    /\ xm' = [xm EXCEPT !.pc = "encoded", !.doc = encode(xm.root, NsMap)]
    /\ UNCHANGED notXML

\* Decode(ns, in) of the document written by Encode.
Decode ==
    /\ xm.pc = "encoded"
    /\ LET out == DecodeDocument(NsMap, xm.doc)
       IN  xm' = [xm EXCEPT !.pc = "decoded", !.out = out,
                            !.first = IF xm.round = 1 THEN out.elements
                                                      ELSE @]
    /\ UNCHANGED notXML

\* The root of the elements decoded is encoded in its turn.
EncodeDecoded ==
    /\ xm.pc = "decoded"
    /\ xm.round = 1
    /\ xm.out.err = "nil"
    /\ xm' = [xm EXCEPT !.pc = "tree", !.round = 2,
                        !.root = ElementAt(xm.out.elements, 1)]
    /\ UNCHANGED notXML

NextXML ==
    \/ NewElement
    \/ Encode
    \/ Decode
    \/ EncodeDecoded

(***************************************************************************)
(* Part IX.  wsd.DecodeMsg and querier.Input                               *)
(*                                                                         *)
(* A received packet is described by what the decoders look at: whether    *)
(* its sender is a local port, whether its bytes are an XML document, the  *)
(* name of the root, the presence of Header and Body, whether the header   *)
(* and the body are complete, and the Action of the header.                *)
(***************************************************************************)
ActHello == "Hello"
ActBye == "Bye"
ActProbe == "Probe"
ActProbeMatches == "ProbeMatches"
ActResolve == "Resolve"
ActResolveMatches == "ResolveMatches"

WsdActions ==
    {ActHello, ActBye, ActProbe, ActProbeMatches, ActResolve,
     ActResolveMatches}

\* NsSOAP + ":" + "Envelope"
rootName == "s:Envelope"

Packets ==
    [looped : BOOLEAN, xml : BOOLEAN, root : {rootName, "s:Body"},
     hdr : BOOLEAN, body : BOOLEAN, hdrOK : BOOLEAN, bodyOK : BOOLEAN,
     action : WsdActions]

\* DecodeHdr: the header decodes when it is complete.
DecodeHdr(pkt) == IF pkt.hdrOK THEN "nil" ELSE "missed"

\* DecodeHello: the body decodes when it is complete.
DecodeHello(pkt) == IF pkt.bodyOK THEN "nil" ELSE "missed"

\* DecodeBye
DecodeBye(pkt) == "not implemented"

\* wsd.DecodeMsg: the error it returns ("nil": none).
DecodeMsg(pkt) ==
    IF pkt.root # rootName THEN "missed"
    ELSE IF ~pkt.hdr \/ ~pkt.body THEN "missed"
    ELSE IF DecodeHdr(pkt) # "nil" THEN DecodeHdr(pkt)
    ELSE CASE pkt.action = ActHello -> DecodeHello(pkt)
           [] pkt.action = ActBye -> DecodeBye(pkt)
           [] OTHER -> "unhanded action"

\* The bytes of the packet decoded: into the XML tree first, then by
\* DecodeMsg.
DecodeData(pkt) == IF ~pkt.xml THEN "syntax error" ELSE DecodeMsg(pkt)

NoWsd == [pc |-> "idle"]

InitWsd == wq = NoWsd

\* querier.Input for one packet: err is the error of the decoding ("none":
\* nothing was decoded), log what was logged, handed whether the message
\* was given to q.units.InputFromUDP.
querierInput ==
    /\ wq.pc = "idle"
    /\ \E pkt \in Packets :
         LET err == DecodeData(pkt)
         IN  wq' = IF pkt.looped
                   THEN [pc |-> "done", pkt |-> pkt, err |-> "none",
                         log |-> "none", handed |-> FALSE]
                   ELSE IF err # "nil"
                   THEN [pc |-> "done", pkt |-> pkt, err |-> err,
                         log |-> "warning", handed |-> FALSE]
                   ELSE [pc |-> "done", pkt |-> pkt, err |-> err,
                         log |-> "debug",
                         handed |-> pkt.action \in
                            {ActHello, ActBye, ActProbeMatches,
                             ActResolveMatches}]
    /\ UNCHANGED notWsd

\* The next packet arrives.
wsdNextPacket ==
    /\ wq.pc = "done"
    /\ wq' = NoWsd
    /\ UNCHANGED notWsd

NextWsd ==
    \/ querierInput
    \/ wsdNextPacket

(***************************************************************************)
(* Part X.  discovery.UnitID                                               *)
(***************************************************************************)
\* uuid.NilUUID: the UUID of a device that has none.
NilUUID == "00000000-0000-0000-0000-000000000000"

\* The UnitIDs compared; Variant, SvcProto and Serial are not looked at by
\* the comparisons and are left out.
CmpUnitIDs ==
    [DeviceName : {"Kyocera", "Canon"},
     UUID : {NilUUID, "urn:uuid:1"},
     Queue : {"", "lp1"},
     Realm : {"RealmDNSSD", "RealmWSD"},
     Zone : {"", "eth0"},
     SvcType : {"ServicePrinter", "ServiceScanner"}]

\* UnitID.SameDevice
SameDevice(id, id2) ==
    IF id.UUID = id2.UUID THEN TRUE
    ELSE IF /\ id.DeviceName = id2.DeviceName
            /\ id.Realm = id2.Realm
            /\ id.Zone = id2.Zone
    THEN TRUE
    ELSE FALSE

\* UnitID.SameService
SameService(id, id2) == id.SvcType = id2.SvcType /\ SameDevice(id, id2)

\* UnitID.SameUnit
SameUnit(id, id2) == id.Queue = id2.Queue /\ SameService(id, id2)

NoCompare == [pc |-> "idle"]

InitUnitID == cmp = NoCompare

\* Two UnitIDs are compared in the three ways.
CompareUnitIDs ==
    /\ cmp.pc = "idle"
    /\ \E id \in CmpUnitIDs, id2 \in CmpUnitIDs :
         cmp' = [pc |-> "done", id |-> id, id2 |-> id2,
                 device |-> SameDevice(id, id2),
                 service |-> SameService(id, id2),
                 unit |-> SameUnit(id, id2)]
    /\ UNCHANGED notUnitID

\* The next pair.
CompareNext ==
    /\ cmp.pc = "done"
    /\ cmp' = NoCompare
    /\ UNCHANGED notUnitID

NextUnitID ==
    \/ CompareUnitIDs
    \/ CompareNext

(***************************************************************************)
(* Part XI.  netstate.setOfInterfaces                                      *)
(*                                                                         *)
(* The type is not part of the sources at hand; its test is.  The set is   *)
(* modelled as the count of references per interface, and the values add,  *)
(* del and contains return are those TestSetOfInterfaces expects.  del is  *)
(* called for interfaces that are in the set only.                         *)
(***************************************************************************)
\* netifmaker.new(): the interfaces of the test.
NetIfs == {"if0", "if1"}

\* newSetOfInterfaces
newSetOfInterfaces == [nif \in NetIfs |-> 0]

\* setOfInterfaces.add: the set it leaves and the value it returns.
add(set, nif) ==
    [set |-> [set EXCEPT ![nif] = @ + 1], ret |-> set[nif]]

\* setOfInterfaces.del
del(set, nif) ==
    [set |-> [set EXCEPT ![nif] = IF @ > 0 THEN @ - 1 ELSE 0],
     ret |-> set[nif]]

\* setOfInterfaces.contains
contains(set, nif) == [set |-> set, ret |-> set[nif]]

\* The call of TestSetOfInterfaces for one entry of tests.
callOp(set, op, nif) ==
    CASE op = "add" -> add(set, nif)
      [] op = "del" -> del(set, nif)
      [] OTHER -> contains(set, nif)

\* TestSetOfInterfaces: the operations and the values expected of them.
tests ==
    <<[nif |-> "if0", op |-> "add", ret |-> 0],
      [nif |-> "if0", op |-> "contains", ret |-> 1],
      [nif |-> "if1", op |-> "add", ret |-> 0],
      [nif |-> "if1", op |-> "del", ret |-> 1],
      [nif |-> "if1", op |-> "contains", ret |-> 0],
      [nif |-> "if0", op |-> "add", ret |-> 1],
      [nif |-> "if0", op |-> "add", ret |-> 2],
      [nif |-> "if0", op |-> "contains", ret |-> 3]>>

\* The set after the first i entries of tests.
RECURSIVE setAfter(_)
setAfter(i) ==
    IF i = 0 THEN newSetOfInterfaces
    ELSE callOp(setAfter(i - 1), tests[i].op, tests[i].nif).set

\* The entries of tests whose call returns another value than expected.
testsFailed ==
    {i \in DOMAIN tests :
        callOp(setAfter(i - 1), tests[i].op, tests[i].nif).ret
           # tests[i].ret}

NoCall == [op |-> "none", nif |-> "none", ret |-> 0, pre |-> 0]

InitSetOfInterfaces ==
    /\ sif = newSetOfInterfaces
    /\ sifLast = NoCall

\* One call: pre is the count of nif before it.
sifCall(op, nif) ==
    LET r == callOp(sif, op, nif)
    IN  /\ sif' = r.set
        /\ sifLast' = [op |-> op, nif |-> nif, ret |-> r.ret,
                       pre |-> sif[nif]]
        /\ UNCHANGED notSif

sifAdd == \E nif \in NetIfs : sif[nif] < MaxRefs /\ sifCall("add", nif)

sifDel == \E nif \in NetIfs : sif[nif] > 0 /\ sifCall("del", nif)

sifContains == \E nif \in NetIfs : sifCall("contains", nif)

NextSetOfInterfaces ==
    \/ sifAdd
    \/ sifDel
    \/ sifContains

(***************************************************************************)
(* Specifications.                                                         *)
(***************************************************************************)
Init == InitEscl /\ InitATL /\ InitSched /\ InitClnt /\ InitArgv /\ InitTokenize
        /\ InitValidate /\ InitMconn /\ InitXML /\ InitWsd
        /\ InitUnitID /\ InitSetOfInterfaces

\* The eSCL server.
Spec == Init /\ [][NextEscl]_vars

\* The auto-TLS listener.
SpecATL == Init /\ [][NextATL]_vars

\* The auto-TLS listener with the goroutines scheduled: while some
\* goroutine can take a step of accept or close, one of them does, and
\* Accept of a closed parent fails.  Nothing is assumed of when callers
\* call Accept and Close, of when connections arrive or of what peers send.
SpecATLFair ==
    /\ Init
    /\ [][NextATL]_vars
    /\ WF_vars(Runs)

\* The scheduler.
SpecSched == Init /\ [][NextSched]_vars

\* The scheduler with proc and Close scheduled: a send goes through once
\* the channel has room, a sleep ends, a return runs its defers.  Nothing is
\* assumed of the owner: of when it reads events and whether it calls Close.
SpecSchedFair ==
    /\ Init
    /\ [][NextSched]_vars
    /\ WF_vars(SchedRuns)

\* The discovery client.
SpecClnt == Init /\ [][NextClnt]_vars

\* The worker of the discovery client and its cache.
SpecCache == Init /\ [][NextCache]_vars

\* The parser of command lines.
SpecArgv == Init /\ [][NextArgv]_vars

\* The tokenizer of command lines.
SpecTokenize == Init /\ [][NextTokenize]_vars

\* The validation of scan requests.
SpecValidate == Init /\ [][NextValidate]_vars

\* The reception of UDP multicasts.
SpecMconn == Init /\ [][NextMconn]_vars

\* The XML encoder and decoder.
SpecXML == Init /\ [][NextXML]_vars

\* The dispatch of received WSD messages.
SpecWsd == Init /\ [][NextWsd]_vars

\* The comparison of UnitIDs.
SpecUnitID == Init /\ [][NextUnitID]_vars

\* The set of interfaces.
SpecSetOfInterfaces == Init /\ [][NextSetOfInterfaces]_vars

(***************************************************************************)
(* Properties of the eSCL server.                                          *)
(***************************************************************************)
Min(a, b) == IF a < b THEN a ELSE b

\* The JobInfo of job j in status.Jobs, as a set (empty: not in the history).
InfoOf(j) ==
    {status.Jobs[i] : i \in {k \in 1..Len(status.Jobs) :
                               status.Jobs[k].JobURI = JobURIOf(URN(j))}}

\* last is the step of a postScanJobs that left the server as it was.
PostLeftServer ==
    /\ document = last.preDoc
    /\ status = last.preStatus

\* C1: under every interleaving of POST ScanJobs, NextDocument and DELETE,
\* at every instant at most one job of ScannerStatus.Jobs is Processing, and
\* that job is the first of the list.
C1_OneProcessing ==
    \A i \in 1..Len(status.Jobs) :
       status.Jobs[i].JobState = JobProcessing => i = 1

\* C1 witness: a second job is Processing at the head of the list, before a
\* job that was finished, while another request is still being handled.
C1_Witness ==
    /\ Len(status.Jobs) >= 2
    /\ status.Jobs[1].JobState = JobProcessing
    /\ status.Jobs[2].JobState = JobCanceled
    /\ BagCardinality(req) >= 1

\* C2: a POST ScanJobs with valid ScanSettings, handled with no job in
\* progress and with Scanner.Scan succeeding, is answered 201 with
\* Location = scheme://Host + BasePath + ScanJobs/<job URN>; the document
\* returned is the current one, State is Processing and the new JobInfo,
\* Processing, is Jobs[0], the older jobs following it in their order.
C2_PostCreated ==
    (/\ last.op = "postScanJobs"
     /\ last.body = "valid"
     /\ last.preDoc = 0
     /\ last.scan = "ok")
    => /\ last.code = 201
       /\ last.location =
             (IF last.tls THEN "https://" ELSE "http://") \o last.host
                \o "/eSCL/ScanJobs/" \o URN(last.job)
       /\ document = last.doc
       /\ document # 0
       /\ document \notin closedDocs
       /\ status.State = ScannerProcessing
       /\ Len(status.Jobs) =
             Min(Len(last.preStatus.Jobs) + 1, AbstractServerHistorySize)
       /\ status.Jobs[1].JobState = JobProcessing
       /\ status.Jobs[1].JobUUID = URN(last.job)
       /\ status.Jobs[1].JobURI = "/eSCL/ScanJobs/" \o URN(last.job)
       /\ \A i \in 2..Len(status.Jobs) :
             status.Jobs[i] = last.preStatus.Jobs[i - 1]
       /\ \A i \in 1..Len(last.preStatus.Jobs) :
             last.preStatus.Jobs[i].JobURI # status.Jobs[1].JobURI

\* C2 witness: a job was accepted over TLS on a server that holds an older
\* job.
C2_Witness ==
    /\ last.op = "postScanJobs"
    /\ last.code = 201
    /\ last.tls
    /\ Len(last.preStatus.Jobs) >= 1

\* C3 as stated: every POST ScanJobs handled while a document is held is
\* rejected with 503, Scanner.Scan is not called and the server is left as
\* it was.
C3_Original ==
    (last.op = "postScanJobs" /\ last.preDoc # 0)
    => /\ last.code = 503
       /\ last.scan = "none"
       /\ PostLeftServer

\* C3 amended: a POST ScanJobs handled while a document is held is rejected
\* with 503 when its body decodes to ScanSettings and with 400 when it does
\* not; in both cases Scanner.Scan is not called and the scanner State, the
\* Jobs list and the current document are left as they were.
C3_BusyRejected ==
    (last.op = "postScanJobs" /\ last.preDoc # 0)
    => /\ last.code = (IF last.body = "valid" THEN 503 ELSE 400)
       /\ last.scan = "none"
       /\ last.uuid = "none"
       /\ PostLeftServer

\* C3 witness: a valid POST was rejected as busy.
C3_Witness ==
    /\ last.op = "postScanJobs"
    /\ last.preDoc # 0
    /\ last.body = "valid"
    /\ last.code = 503

\* C4 as stated: when NextDocument on the job in progress found EOF, that
\* job is marked Completed, its document is closed and released, State is
\* Idle and the answer is 404.
C4_Original ==
    (last.op = "finish" /\ last.next = "EOF")
    => /\ last.code = 404
       /\ \A info \in InfoOf(last.job) : info.JobState = JobCompleted
       /\ last.job \in closedDocs
       /\ document = 0
       /\ status.State = ScannerIdle

\* C5 as stated: when NextDocument on the job in progress failed with an
\* error other than EOF, that job is marked Aborted, its document is
\* released, State is Idle and the answer is 503.
C5_Original ==
    (last.op = "finish" /\ last.next = "error")
    => /\ last.code = 503
       /\ \A info \in InfoOf(last.job) : info.JobState = JobAborted
       /\ last.job \in closedDocs
       /\ document = 0
       /\ status.State = ScannerIdle

\* C6 as stated: DELETE on the job in progress marks that job Canceled,
\* closes and releases its document, State is Idle and the answer is 200.
C6_Original ==
    (last.op = "finish" /\ last.next = "DELETE")
    => /\ last.code = 200
       /\ \A info \in InfoOf(last.job) : info.JobState = JobCanceled
       /\ last.job \in closedDocs
       /\ document = 0
       /\ status.State = ScannerIdle

\* C7 as stated: POST ScanJobs is rejected with 400 when the body does not
\* decode, with 409 when the request conflicts with the capabilities, with
\* 503 when the scanner fails to start the scan, and none of these creates a
\* job.
C7_Original ==
    last.op = "postScanJobs"
    => /\ last.body \in {"badxml", "badsettings"} => last.code = 400
       /\ last.scan = "conflict" => last.code = 409
       /\ last.scan = "fail" => last.code = 503
       /\ last.code \in {400, 409, 503} => PostLeftServer

(***************************************************************************)
(* Properties of the auto-TLS listener.                                    *)
(***************************************************************************)
\* The goroutines between atl.haveAccepter = true and its reset in accept.
Accepters ==
    At("parentAccept") \cup At("register") \cup At("detect")
       \cup At("unpend") \cup At("enqueue") \cup At("after")

\* The connections a goroutine holds that are neither queued nor pending.
InHand == {t.c : t \in At("register") \cup At("enqueue")}

\* C8 as stated: a connection whose first byte is 0x16 is returned by Accept
\* of the encrypted child only, a connection with any other first byte by
\* Accept of the plain child only.
C8_Original ==
    \A c \in Conns :
       /\ conn[c].first = "0x16" => conn[c].st # "plain"
       /\ conn[c].first = "other" => conn[c].st # "encrypted"

\* C9: however many goroutines call Accept on the two children, at most one
\* of them is inside Accept on the parent (or anywhere in acceptWait); the
\* others wait on the condition variable only while there is an accepter,
\* whose end wakes them, and while a connection of its kind is queued a
\* goroutine waits only until the accepter that queued it does the wake-up.
C9_OneAccepter ==
    /\ BagCardinality(gor) <= NumAcc
    /\ \A t \in Accepters : CopiesIn(t, gor) = 1
    /\ Cardinality(Accepters) <= 1
    /\ haveAccepter <=> Accepters # {}
    /\ At("wait") # {} => haveAccepter
    /\ \A t \in At("wait") :
          QueueOf(t.encrypted) # <<>> => At("after") # {}

\* C9 witness: one goroutine is inside parent.Accept while another one
\* waits on the condition variable.
C9_Witness ==
    /\ At("parentAccept") # {}
    /\ At("wait") # {}

\* C10, once close has returned: the parent is closed, nothing is queued or
\* pending, and every connection still open is one that was neither queued
\* nor pending when close ran and is in the hands of the accepter.
C10_Closed ==
    /\ closed => plain = <<>> /\ encrypted = <<>> /\ pending = {}
    /\ (closed /\ closer.pc = "idle")
       => /\ parentClosed
          /\ \A c \in Conns : conn[c].st = "open" => c \in InHand

\* C10, after the close: no connection is enqueued, none is returned by
\* Accept, and a goroutine that leaves Accept leaves it with an error.
C10_NothingAfterClose ==
    closed => /\ plain' = <<>>
              /\ encrypted' = <<>>
              /\ \A c \in Conns :
                    conn'[c].st \in {"plain", "encrypted"}
                    => conn'[c] = conn[c]
              /\ BagCardinality(gor') < BagCardinality(gor)
                 => ngone' = ngone + 1

\* C10: closing a child closes the parent and every queued or pending
\* connection, nothing is enqueued or returned by Accept afterwards, and
\* the goroutines inside Accept all leave it, with an error.
C10_Close ==
    /\ []C10_Closed
    /\ [][C10_NothingAfterClose]_vars
    /\ closed ~> (gor = EmptyBag /\ closer.pc = "idle")

\* C10 witness: a connection was returned by Accept, then the listener was
\* closed with another connection inside it; that connection is closed,
\* close has returned and every caller has left Accept with the error.
C10_Witness ==
    /\ closed
    /\ closer.pc = "idle"
    /\ gor = EmptyBag
    /\ ngone = NumAcc
    /\ \E c \in Conns : conn[c].st = "closed"
    /\ \E c \in Conns : conn[c].st \in {"plain", "encrypted"}

\* C11 as stated: a connection whose first byte could not be peeked (the
\* peer went before sending one, or the read failed) is closed: it is
\* neither put in a queue nor returned by Accept of either child.
C11_Original ==
    \A c \in Conns :
       conn[c].first = "none"
       => /\ conn[c].st \notin {"plain", "encrypted"}
          /\ c \notin SeqToSet(plain) \cup SeqToSet(encrypted)

(***************************************************************************)
(* Properties of the scheduler.                                            *)
(***************************************************************************)
\* proc is blocked in a send on the full channel.
BlockedOnFull ==
    /\ proc.pc \in {"new", "send"}
    /\ Len(chan) = ChanCap

\* C12: in browse mode exactly schedRetransmitSeriesLen (4) schedSend are
\* sent between two consecutive schedNewMessage, none is sent before the
\* first schedNewMessage, and a schedNewMessage is sent only after the 4
\* schedSend of the message before it.
C12_SeriesLen ==
    ~resolve
    => /\ schedRetransmitSeriesLen = 4
       /\ emitted.gap \in {-1, 4}
       /\ emitted.sends <= 4
       /\ ~emitted.news => emitted.sends = 0
       /\ (proc.pc = "new" /\ emitted.news) => emitted.sends = 4

\* C12 witness: a browse-mode scheduler has sent two schedNewMessage with
\* the 4 schedSend between them, and is in the series of the second.
C12_Witness ==
    /\ ~resolve
    /\ emitted.gap = 4
    /\ emitted.sends > 0

C13_Timeout ==
    /\ proc.why = "timeout" => resolve /\ elapsed >= schedResolveMaxTime
    /\ proc.why = "canceled" => closing # "idle"
    /\ chanClosed <=> proc.pc = "done"
    /\ lastRead = "schedClosed" => chanClosed

\* C13, a read from the closed channel: it gives the events still buffered
\* and then schedClosed.
C13_ReadClosed ==
    (chanClosed /\ lastRead' # lastRead)
    => lastRead' = IF chan = <<>> THEN "schedClosed" ELSE Head(chan)

C14_Returned ==
    /\ closing # "idle" => timerCanceled
    /\ closing = "returned" => proc.pc = "done" /\ chanClosed
    /\ closing \in {"wait", "returned"} => Len(chan) <= 2

\* C14: Close, called at any point of a series and with any number of
\* unread events, returns; proc has then exited and the channel is closed.
C14_Close ==
    /\ []C14_Returned
    /\ (closing # "idle") ~> (closing = "returned")

\* C14 witness: Close has returned after cancelling a proc that sent an
\* event more while Close was past its drain loop.
C14_Witness ==
    /\ closing = "returned"
    /\ proc.why = "canceled"
    /\ Len(chan) > 0
(***************************************************************************)
(* Properties of the discovery client.                                     *)
(***************************************************************************)
\* A backend is attached if and only if its Start was called, and then it
\* was called once.
C15_StartedOnce ==
    \A bk \in Backends : started[bk] = IF bk \in backends THEN 1 ELSE 0

\* An AddBackend that panics is one for an attached backend; it calls no
\* Start and leaves the set of backends as it is.
C15_Panic ==
    panics' # panics
    => /\ panics' \ panics \subseteq backends
       /\ UNCHANGED <<backends, started>>

\* The mutex is held by a goroutine in AddBackend only: a panic releases it.
C15_Unlocked == clntLock => adders # EmptyBag

\* C15: AddBackend never attaches a backend twice: the first call for bk
\* adds it to the backends and calls bk.Start exactly once; a repeated call
\* panics without another Start and without a change of the backends, and
\* the mutex is released.
C15_AddBackend ==
    /\ [](C15_StartedOnce /\ C15_Unlocked)
    /\ [][C15_Panic]_vars

\* A repeated AddBackend has panicked: its backend is attached, started
\* once, and the mutex is free.
C15_Witness ==
    \E bk \in panics :
       /\ bk \in backends
       /\ started[bk] = 1
       /\ ~clntLock

\* The cache after the events of the sequence evnts, applied in order.
RECURSIVE Replay(_, _)
Replay(c, evnts) ==
    IF evnts = <<>> THEN c
    ELSE Replay(Update(c, Head(evnts)), Tail(evnts))

\* Close has returned.
C16_Returned == clntClose = "returned"

\* When Close has returned the worker has terminated: the cache is not
\* updated any more.
C16_WorkerStopped == C16_Returned => worker.pc = "done"

\* C16: Client.Close closes every attached backend and stops the client:
\* when it has returned, Close was called on each backend of clnt.backends
\* and the worker goroutine has terminated.
C16_Original ==
    C16_Returned
    => /\ backends \subseteq bkClosed
       /\ worker.pc = "done"

\* C17: GetDevices returns a snapshot of the devices in the cache: every
\* call so far has returned the units added by events and not deleted
\* since.
C17_Original == snapshots

\* The cache changes only by the worker's update for the event it pulled
\* last, while no other goroutine holds the mutex.
C18_Update ==
    cache' # cache
    => /\ worker.pc = "apply"
       /\ worker'.pc # "apply"
       /\ worker'.evnt = worker.evnt
       /\ ~clntLock
       /\ cache' = Update(cache, worker.evnt)

\* The worker pulls an event only when it has applied the one before.
C18_Pull ==
    queue' # queue /\ Len(queue') < Len(queue)
    => /\ worker.pc = "pull"
       /\ worker' = [pc |-> "apply", evnt |-> Head(queue), err |-> FALSE]

\* C18: the events are applied one at a time, in the order they are pulled
\* from the queue: each pull is followed by the update for the event
\* pulled before the next pull, and no update overlaps another one or the
\* critical section of AddBackend, with backends pushing meanwhile.
C18_Serial == [][C18_Update /\ C18_Pull]_vars

\* An event was applied, another one waits in the queue, both backends
\* are started and an AddBackend holds the mutex.
C18_Witness ==
    /\ worker.pc = "pull"
    /\ worker.evnt # NoEvent
    /\ cache.units # {}
    /\ Len(queue) > 0
    /\ backends = Backends
    /\ clntLock
    /\ adders # EmptyBag

\* C19: an error of a cache update is not propagated: after it the worker
\* is back at the pull of the next event; the loop has ended only when the
\* client's context was cancelled.
C19_ErrorsLogged ==
    /\ worker.pc = "done" => ctxDone
    /\ (worker.err /\ ~ctxDone) => worker.pc = "pull"

\* A cache update has returned an error, the context is not cancelled and
\* the worker waits for the next event, which is in the queue.
C19_Witness ==
    /\ worker.err
    /\ ~ctxDone
    /\ worker.pc = "pull"
    /\ worker.evnt # NoEvent
    /\ Len(queue) > 0

\* Every URL is bound to at most one unit.
C20_OneUnit == \A url \in URLs : Cardinality(BoundTo(cache, url)) <= 1

\* A binding appears only by AddEndpoint for a URL bound to no unit, and
\* disappears only by DelEndpoint with its unit or by DelUnit of its unit;
\* an AddEndpoint for a URL bound to another unit changes nothing.
C20_Bindings ==
    \A url \in URLs, id \in UnitIDs :
       LET b == <<url, id>> IN
       /\ (b \notin cache.endpoints /\ b \in cache'.endpoints)
          => /\ worker.evnt = Event("AddEndpoint", id, url)
             /\ BoundTo(cache, url) = {}
       /\ (b \in cache.endpoints /\ b \notin cache'.endpoints)
          => worker.evnt \in {Event("DelEndpoint", id, url),
                              Event("DelUnit", id, "none")}
       /\ (/\ worker.pc = "apply"
           /\ worker'.pc # "apply"
           /\ worker.evnt = Event("AddEndpoint", id, url)
           /\ BoundTo(cache, url) \ {id} # {})
          => cache' = cache

\* C20: the cache binds every endpoint URL to at most one UnitID: an
\* AddEndpoint for a URL bound to another unit is ignored, and DelEndpoint
\* removes a binding only when it is the one of the given id.
C20_Endpoints == []C20_OneUnit /\ [][C20_Bindings]_vars

\* The URL is bound to unit1, and the AddEndpoint of unit2, which is in
\* the cache, for the same URL has been applied.
C20_Witness ==
    /\ BoundTo(cache, "url1") = {"unit1"}
    /\ "unit2" \in cache.units
    /\ worker.pc = "pull"
    /\ worker.evnt = Event("AddEndpoint", "unit2", "url1")

\* The cache holds nothing of a unit that is not in it: no endpoint
\* binding and no metadata.
C21_NothingLeft ==
    /\ \A e \in cache.endpoints : e[2] \in cache.units
    /\ cache.meta \subseteq cache.units

\* The update for DelUnit(id) takes away the unit and every binding of it
\* in the one step; the update for another event of a unit that is not in
\* the cache changes nothing.
C21_Step ==
    (worker.pc = "apply" /\ worker'.pc # "apply")
    => LET id == worker.evnt.id IN
       /\ worker.evnt.kind = "DelUnit"
          => /\ id \notin cache'.units
             /\ \A e \in cache'.endpoints : e[2] # id
             /\ \A e \in cache.endpoints : e[2] # id => e \in cache'.endpoints
       /\ (worker.evnt.kind # "AddUnit" /\ id \notin cache.units)
          => cache' = cache

\* AddUnit(A), Metadata(A, m1), AddEndpoint(A, u1), DelEndpoint(A, u1),
\* DelUnit(A) applied to an empty cache leave it empty.
C21_Sequence ==
    Replay(NoCache, <<Event("AddUnit", "unit1", "none"),
                      Event("Metadata", "unit1", "none"),
                      Event("AddEndpoint", "unit1", "url1"),
                      Event("DelEndpoint", "unit1", "url1"),
                      Event("DelUnit", "unit1", "none")>>) = NoCache

IsOpt(arg) == isShortOption(arg) \/ isLongOption(arg)

\* The places of argv that hold the first token that is no option: all
\* before it are options without value of the command or the "--" just
\* before it.
SubIndex(p) ==
    {i \in 1..Len(p.argv) :
        /\ \A j \in 1..(i - 1) :
              \/ findOption(p.cmd, p.argv[j]) # 0
              \/ j = i - 1 /\ p.argv[j] = <<"-", "-">>
        /\ \/ i > 1 /\ p.argv[i - 1] = <<"-", "-">>
           \/ ~IsOpt(p.argv[i]) /\ p.argv[i] # <<"-", "-">>}

\* What the token at place i of argv has to select among the sub-commands.
Selects(p, i) ==
    LET arg == p.argv[i]
        names == p.cmd.SubCommands
        exact == {k \in 1..Len(names) : names[k] = arg}
        prefix == {k \in 1..Len(names) : HasPrefix(names[k], arg)}
        chosen == IF exact # {} THEN exact ELSE prefix
    IN IF exact # {} \/ Cardinality(prefix) = 1
       THEN /\ p.err = NoErr
            /\ p.subcmd \in chosen
            /\ p.subargv = SubSeq(p.argv, i + 1, Len(p.argv))
       ELSE IF prefix # {}
       THEN p.err = Errorf("ambiguous sub-command", arg, <<>>)
       ELSE p.err = Errorf("unknown sub-command", arg, <<>>)

\* C22: in a command with sub-commands the first token that is no option
\* selects the sub-command: a token equal to a name selects it, otherwise
\* a prefix of exactly one name selects that one, a prefix of several
\* names fails as ambiguous, a token matching none fails as unknown; the
\* tokens after it are the argv of the sub-command.
C22_Original ==
    (prs.pc = "done" /\ hasSubCommands(prs.cmd))
    => \A i \in SubIndex(prs) : Selects(prs, i)

\* The same for the parser of parser.go alone.
C22_Parser == prs.variant = "parser.go" => C22_Original

\* The options seen in argv, as indexes of cmd.Options.
SeenOpts(p) == DOMAIN p.options

\* Option x of the command lists a name of option y in the sequence names.
Lists(p, names, y) == NamesOf(p.cmd.Options[y]) \cap SeqToSet(names) # {}

\* A parse without error has seen no option together with one it
\* conflicts with.
C23_Conflicts ==
    (prs.pc = "done" /\ prs.variant = "parser.go" /\ prs.err = NoErr)
    => \A x, y \in SeenOpts(prs) :
          ~Lists(prs, prs.cmd.Options[x].Conflicts, y)

\* A parse without error has seen every option that a seen option
\* requires; the error 'missed option Y, required by X' names an option Y
\* that was not seen and a seen option X that requires it.
C23_Requires ==
    (prs.pc = "done" /\ prs.variant = "parser.go")
    => /\ prs.err = NoErr
          => \A x \in SeenOpts(prs) :
                \A name \in SeqToSet(prs.cmd.Options[x].Requires) :
                   \E y \in SeenOpts(prs) : name \in NamesOf(prs.cmd.Options[y])
       /\ prs.err.kind = "missed option"
          => /\ \A y \in SeenOpts(prs) :
                   prs.err.a \notin NamesOf(prs.cmd.Options[y])
             /\ \E x \in SeenOpts(prs) :
                   /\ prs.err.b \in NamesOf(prs.cmd.Options[x])
                   /\ prs.err.a \in SeqToSet(prs.cmd.Options[x].Requires)

\* C23: Conflicts and Requires hold over all the options seen in argv: if
\* X lists Y in Conflicts and both occur, in either order, the parse fails;
\* if X lists Y in Requires and Y does not occur, the parse fails with
\* 'missed option Y, required by X'; if Y occurs anywhere, it is satisfied.
C23_Original == C23_Conflicts /\ C23_Requires

\* The place of the first "--" of argv, 0 if there is none.
FirstDD(argv) ==
    IF \E i \in 1..Len(argv) : argv[i] = <<"-", "-">>
    THEN Least({i \in 1..Len(argv) : argv[i] = <<"-", "-">>})
    ELSE 0

\* C24: after the first "--" of argv option parsing is off: a parse
\* without error has taken every later token as a positional parameter,
\* and no option and not the "--" itself.
C24_Original ==
    (prs.pc = "done" /\ prs.err = NoErr /\ FirstDD(prs.argv) > 0)
    => LET d == FirstDD(prs.argv)
           rest == SubSeq(prs.argv, d + 1, Len(prs.argv))
           n == Len(prs.paramValues) - Len(rest)
       IN /\ n >= 0
          /\ SubSeq(prs.paramValues, n + 1, Len(prs.paramValues)) = rest
          /\ \A i \in 1..n : prs.paramValues[i] # <<"-", "-">>

\* The argument a turn of the loop of parse works on.
ArgOf(p) == p.argv[p.nextarg + 1]

\* A turn of the loop of parse with option parsing off: no option is
\* added and no error about an option comes; the argument selects the
\* sub-command in a command with sub-commands (parser.go), and otherwise
\* is the next positional parameter or is rejected as unexpected.
C24_Off ==
    (prs.pc = "loop" /\ prs' # prs /\ ~done(prs) /\ prs.doneOptions)
    => /\ prs'.options = prs.options
       /\ prs'.doneOptions
       /\ prs'.nextarg = prs.nextarg + 1
       /\ IF toSubCommand(prs)
          THEN \/ prs'.subcmd # 0
               \/ prs'.err.kind \in {"unknown sub-command",
                                     "ambiguous sub-command"}
          ELSE \/ prs'.paramValues = Append(prs.paramValues, ArgOf(prs))
               \/ prs'.err = Errorf("unexpected parameter", ArgOf(prs), <<>>)

\* The turn of the loop of parse that meets "--" with option parsing on:
\* it turns option parsing off and the "--" is no parameter value.
C24_Marker ==
    (prs.pc = "loop" /\ prs' # prs /\ ~done(prs) /\ ~prs.doneOptions
       /\ ArgOf(prs) = <<"-", "-">>)
    => /\ prs'.doneOptions
       /\ prs'.err = NoErr
       /\ prs'.paramValues = prs.paramValues
       /\ prs'.options = prs.options

\* C24 as it holds: once the loop of parse has met a "--" where an option
\* may stand, no later token is taken as an option; in a command with
\* parameters each later token is a positional parameter, in a command
\* with sub-commands the next token names the sub-command; that "--" is
\* no parameter value.
C24_DoubleDash == [][C24_Off /\ C24_Marker]_vars

\* A parse without error of a command line with "--" and then a token
\* written as an option, which is a parameter value, no option being seen.
C24_Witness ==
    /\ prs.pc = "done"
    /\ prs.err = NoErr
    /\ prs.cmd = CmdParams
    /\ prs.doneOptions
    /\ prs.options = <<>>
    /\ \E i \in DOMAIN prs.parameters : IsOpt(prs.parameters[i].value)

\* C26: with a fixed command and a fixed argv two runs of the parser give
\* the same outcome: the same error, or the same options, parameters,
\* sub-command and argv of the sub-command.
C26_Original ==
    (prs.pc = "done" /\ prev # <<>>) => Outcome(prs) = prev[1]

\* C25: for every line Tokenize either succeeds or fails with the error
\* 'unterminated string' and still returns the tokens it has picked up.
C25_Original ==
    tk.pc = "done"
    => \/ tk.err = "nil"
       \/ tk.err = "unterminated string" /\ tk.result = tk.tokens

\* Tokenize ends with no other error than 'unterminated string', which it
\* gives exactly for a line that ends within a quoted string; without
\* error it returns the tokens picked up.
C25_Errors ==
    tk.pc = "done"
    => /\ tk.err \in {"nil", "unterminated string"}
       /\ tk.err = "nil" <=> tk.state \in {"tkSpace", "tkWord"}
       /\ tk.err = "nil" => tk.result = tk.tokens


(***************************************************************************)
(* Properties of the validation of scan requests.                          *)
(***************************************************************************)
\* The name Validate gives to a parameter in its error.
ErrName(k) == IF k = "ColorMode" THEN "ColorMode," ELSE k

\* The value of a parameter that is set.
ValueOf(rq, k) == IF k \in EnumFields THEN rq[k] ELSE rq[k][1]

\* The max value of an enumeration.
MaxOf(k) ==
    CASE k = "Input" -> inputMax
      [] k = "ADFMode" -> adfModeMax
      [] k = "ColorMode" -> colorModeMax
      [] k = "Depth" -> depthMax
      [] k = "BinaryRendering" -> binaryRenderingMax
      [] k = "CCDChannel" -> ccdChannelMax

\* The values of an enumeration the capabilities offer.
OfferedOf(k, scancaps) ==
    CASE k = "Input" -> inputs(scancaps)
      [] k = "ADFMode" -> adfmodes(scancaps)
      [] k = "ColorMode" -> colorModes(scancaps)
      [] k = "Depth" -> depths(scancaps)
      [] k = "BinaryRendering" -> binrend(scancaps)
      [] k = "CCDChannel" -> ccdChannels(scancaps)

\* The rule of one parameter: an unset parameter is accepted, a value
\* outside the enumeration is invalid, a value of the enumeration the
\* capabilities do not offer is unsupported; an optional integer goes by
\* its range.
RuleOf(rq, scancaps, k) ==
    IF k \in EnumFields
    THEN CASE rq[k] = 0 -> "nil"
           [] rq[k] < 0 \/ rq[k] >= MaxOf(k) -> "ErrInvalidParam"
           [] rq[k] \notin OfferedOf(k, scancaps) -> "ErrUnsupportedParam"
           [] OTHER -> "nil"
    ELSE rangeValidate(scancaps.Ranges[k], k, rq[k]).err

\* The first failure among the parameters of order, taken one by one.
FirstFailure(rq, scancaps, order) ==
    LET bad == {i \in DOMAIN order : RuleOf(rq, scancaps, order[i]) # "nil"}
    IN  IF bad = {} THEN NoError
        ELSE LET k == order[Least(bad)]
             IN  ErrParam(RuleOf(rq, scancaps, k), ErrName(k),
                          ValueOf(rq, k))

\* The parameters in the order of the rules: BinaryRendering and Threshold
\* when ColorMode is Binary, else Depth.
OrderOfRules(rq) ==
    <<"Input">>
    \o (IF rq.Input = InputADF THEN <<"ADFMode">> ELSE <<>>)
    \o <<"ColorMode">>
    \o (IF rq.ColorMode = ColorModeBinary
        THEN <<"BinaryRendering", "Threshold">> ELSE <<"Depth">>)
    \o <<"CCDChannel">>
    \o ProcOrder

\* The same with Depth looked at for the color modes Mono and Color only.
OrderOfChecks(rq) ==
    <<"Input">>
    \o (IF rq.Input = InputADF THEN <<"ADFMode">> ELSE <<>>)
    \o <<"ColorMode">>
    \o (CASE rq.ColorMode = ColorModeBinary ->
                <<"BinaryRendering", "Threshold">>
          [] rq.ColorMode \in {ColorModeMono, ColorModeColor} -> <<"Depth">>
          [] OTHER -> <<>>)
    \o <<"CCDChannel">>
    \o ProcOrder

\* C27: Validate checks Input, ADFMode (when Input is ADF), ColorMode,
\* BinaryRendering and Threshold or else Depth, CCDChannel and then the
\* image processing ranges, in this order, and returns the first failure:
\* ErrInvalidParam for a value outside the enumeration, ErrUnsupportedParam
\* for a value the capabilities do not offer; an unset parameter passes.
C27_Original ==
    vld.pc = "done"
    => vld.err = FirstFailure(vld.rq, vld.scancaps, OrderOfRules(vld.rq))

\* Validate returns the first failure among the parameters it looks at:
\* with ColorMode unset these are neither BinaryRendering and Threshold
\* nor Depth.
C27_Checks ==
    vld.pc = "done"
    => vld.err = FirstFailure(vld.rq, vld.scancaps, OrderOfChecks(vld.rq))

\* A request with no ColorMode and a Depth that is no depth was validated.
C27_Depth ==
    /\ vld.pc = "done"
    /\ vld.rq.ColorMode = ColorModeUnset
    /\ vld.rq.Depth >= depthMax
    /\ vld.err = NoError


(***************************************************************************)
(* Properties of the reception of UDP multicasts.                          *)
(***************************************************************************)
\* The task of mc has dealt with what its last RecvFrom returned.
Handled(mc) == task[mc].pc # "got" /\ task[mc].res # "none"

\* C28: a receive task returns only once its socket was closed by Close;
\* while Close was not called, a datagram that does not decode is logged
\* as a warning and skipped, and an error of RecvFrom is logged and the
\* task goes on receiving.
C28_Original ==
    \A mc \in Mconns :
        /\ task[mc].pc = "done" => task[mc].seen.closed
        /\ (Handled(mc) /\ ~task[mc].seen.called /\ task[mc].res = "bad")
           => task[mc].log = "warning" /\ task[mc].pc = "recv"
        /\ (Handled(mc) /\ ~task[mc].seen.called /\ task[mc].res = "error")
           => task[mc].log = "error" /\ task[mc].pc = "recv"

\* The same of the tasks of the querier alone.
C28_Querier == rxOwner = "querier" => C28_Original

\* A task of the backend returned on an error of an open socket.
C28_Returned ==
    \E mc \in Mconns :
        /\ rxOwner = "backend"
        /\ task[mc].pc = "done"
        /\ task[mc].res = "error"
        /\ ~task[mc].seen.called


(***************************************************************************)
(* Properties of the XML encoder and decoder.                              *)
(***************************************************************************)
\* The name of an element with its prefix rewritten through the namespace:
\* the first prefix of the URL of its prefix, "-" for a prefix unknown.
Rewritten(ns, name) ==
    LET p == nsPrefix(name)
        url == ByPrefix(ns, p.prefix)
    IN  IF ~p.ok THEN name
        ELSE (IF url.ok THEN ByURL(ns, url.url).prefix ELSE <<"-">>)
             \o SubSeq(name, Len(p.prefix) + 1, Len(name))

\* The elements of a tree in document order, each with its rewritten name,
\* its path, which tells the nesting, and its trimmed text.
RECURSIVE Listing(_, _, _), ListingAll(_, _, _, _)
Listing(ns, root, path) ==
    LET here == path \o <<"/">> \o Rewritten(ns, root.Name)
    IN  <<[Name |-> Rewritten(ns, root.Name), Path |-> here,
           Text |-> TrimSpace(root.Text)]>>
        \o ListingAll(ns, root.Children, here, 1)

ListingAll(ns, children, path, i) ==
    IF i > Len(children) THEN <<>>
    ELSE Listing(ns, children[i], path)
         \o ListingAll(ns, children, path, i + 1)

\* The same of the elements Decode returned.
Decoded(elements) ==
    [i \in DOMAIN elements |->
       [Name |-> elements[i].Name, Path |-> elements[i].Path,
        Text |-> elements[i].Text]]

\* C29: decoding the output of Encode gives back the tree that was
\* encoded: the same rewritten names in the same document order and
\* nesting, with the same trimmed text; this of a tree a program has built
\* and of a tree Decode has returned.
C29_Original ==
    xm.pc = "decoded"
    => /\ xm.out.err = "nil"
       /\ xm.round = 1
          => Decoded(xm.out.elements) = Listing(NsMap, xm.root, <<>>)
       /\ xm.round = 2
          => Decoded(xm.out.elements) = Decoded(xm.first)

\* The same of the trees a program has built alone.
C29_Built == xm.pc = "decoded" /\ xm.round = 1 => C29_Original

\* A tree that Decode returned was encoded and decoded, and the elements
\* are more than they were.
C29_Twice ==
    /\ xm.pc = "decoded"
    /\ xm.round = 2
    /\ xm.out.err = "nil"
    /\ Len(xm.out.elements) > Len(xm.first)


(***************************************************************************)
(* Properties of the eSCL server: the handlers of the job in progress.     *)
(***************************************************************************)
\* C30: a handler that ServeHTTP chose for the job in progress,
\* getJobURINextDocument or deleteJobURI, finds the document of that job
\* when it runs: Next and Close are never called on a nil document, and
\* finish never ends a job that is not the one the request addressed, so no
\* job is finished twice.
C30_Original ==
    last.op \in {"Next", "finish"}
    => /\ ~last.panic
       /\ last.doc = last.job

\* A handler chosen for a job ran when the document was that of a later job.
C30_OtherJob ==
    /\ last.op \in {"Next", "finish"}
    /\ last.doc # 0
    /\ last.doc # last.job


\* C31: a request addressed to the URI of job X reads pages only from the
\* document of X and changes only the JobInfo of X: when a POST that
\* created a later job Y came in between, the handler of X neither reads
\* nor closes the document of Y and leaves the JobInfo of Y as it was.
C31_Original ==
    last.op \in {"Next", "finish"}
    => /\ last.preDoc \in {0, last.job}
       /\ \A i \in 1..Len(status.Jobs) :
            status.Jobs[i].JobURI # JobURIOf(URN(last.job))
            => status.Jobs[i] = last.preStatus.Jobs[i]

\* finish called for job X closed the document of a later job Y and ended
\* the JobState of Y.
C31_FinishedOther ==
    /\ last.op = "finish"
    /\ ~last.panic
    /\ last.preDoc # last.job
    /\ last.preDoc \in closedDocs
    /\ \E inf \in InfoOf(last.preDoc) : inf.JobState # JobProcessing

\* C32: whenever the lock is free, the scanner State is Processing exactly
\* when a document is held, and a document is held exactly when Jobs is not
\* empty and Jobs[0] is Processing; otherwise the State is Idle, there is
\* no document and no job is Processing.  A new server is Idle with no jobs.
C32_Consistent ==
    ~lock
    => /\ status.State \in {ScannerIdle, ScannerProcessing}
       /\ (status.State = ScannerProcessing) <=> (document # 0)
       /\ (document # 0)
            <=> (/\ Len(status.Jobs) > 0
                 /\ status.Jobs[1].JobState = JobProcessing)
       /\ document = 0
            => \A i \in 1..Len(status.Jobs) :
                  status.Jobs[i].JobState # JobProcessing

\* C32 witness: the lock is free after a job was finished and a later one
\* accepted, which is Processing with its document held.
C32_Witness ==
    /\ ~lock
    /\ last.op = "postScanJobs"
    /\ last.code = 201
    /\ closedDocs # {}
    /\ status.State = ScannerProcessing
    /\ document = last.job
    /\ status.Jobs[2].JobState # JobProcessing

\* C33: a NextDocument, ScanImageInfo or DELETE request whose path is not
\* that of the job in progress (the URI of a finished job, an unknown URI,
\* or any job URI while no job is in progress) is answered 404 and changes
\* neither the scanner status, the Jobs list nor the current document.
C33_NotFound ==
    (/\ last.op = "ServeHTTP"
     /\ last.job # 0
     /\ \/ last.preDoc = 0
        \/ last.preStatus.Jobs[1].JobURI # JobURIOf(URN(last.job)))
    => /\ last.code = 404
       /\ document = last.preDoc
       /\ status = last.preStatus

\* C33 witness: a ScanImageInfo request for a finished job was answered 404
\* while a later job was in progress.
C33_Witness ==
    /\ last.op = "ServeHTTP"
    /\ last.sfx = "/ScanImageInfo"
    /\ last.job \in closedDocs
    /\ last.preDoc # 0
    /\ last.preDoc # last.job
    /\ last.code = 404
    /\ status.State = ScannerProcessing

\* The requests that are streaming a file to their client.
Streaming(r) == {t \in BagToSet(r) : t.pc = "SendImage"}

\* C34: every transition of the scanner status and of the current document
\* is made with the lock held, in the locked sections of postScanJobs and
\* finish, which take the free lock and release it; and the lock is not
\* held while NextDocument streams the bytes of a file: the step that
\* passes the file to SendImage has released the lock, and SendImage
\* neither takes the lock nor touches status or document.
C34_UnderLock ==
    [][/\ (document' # document \/ status' # status)
            => /\ ~lock
               /\ ~lock'
               /\ last'.op \in {"postScanJobs", "finish"}
       /\ last'.op = "Next" /\ last'.next = "file"
            => /\ Streaming(req') # {}
               /\ ~lock'
       /\ last'.op = "SendImage"
            => UNCHANGED <<document, status, lock>>]_vars

\* C34 witness: a job was finished, in a locked section, while another
\* request was streaming a page of it.
C34_Witness ==
    /\ last.op = "finish"
    /\ ~last.panic
    /\ last.preDoc # 0
    /\ document = 0
    /\ Streaming(req) # {}
    /\ ~lock

(***************************************************************************)
(* Properties of the auto-TLS listener: the places of a connection.        *)
(***************************************************************************)
\* The goroutines in acceptWait that hold connection c in their local.
Holders(c) ==
    {t \in At("register") \cup At("detect") \cup At("unpend")
              \cup At("enqueue") : t.c = c}

\* How many times connection c stands in queue q.
TimesIn(c, q) == Cardinality({i \in 1..Len(q) : q[i] = c})

\* The places of connection c: being classified (in the hands of the
\* accepter, in atl.pending while detectTLS reads it), in the plain or the
\* encrypted queue, returned by Accept, or closed (taken by close or
\* closed already).
Classified(c) ==
    /\ conn[c].st = "open"
    /\ c \notin closer.conns
    /\ Cardinality(Holders(c)) = 1
    /\ \A t \in Holders(c) : CopiesIn(t, gor) = 1
InPlain(c) == TimesIn(c, plain) > 0
InEncrypted(c) == TimesIn(c, encrypted) > 0
Returned(c) == conn[c].st \in {"plain", "encrypted"}
Closed(c) == conn[c].st = "closed" \/ c \in closer.conns

\* Every accepted connection is in exactly one place, and a connection
\* that is not being classified is held by no goroutine that would still
\* queue it.
OnePlace ==
    \A c \in Conns :
       /\ c > nconn => /\ conn[c].st = "none"
                       /\ Holders(c) = {}
                       /\ ~InPlain(c) /\ ~InEncrypted(c)
                       /\ c \notin pending \cup closer.conns
       /\ c <= nconn
          => /\ Cardinality({w \in {"classified", "plain", "encrypted",
                                    "returned", "closed"} :
                  CASE w = "classified" -> Classified(c)
                    [] w = "plain" -> InPlain(c)
                    [] w = "encrypted" -> InEncrypted(c)
                    [] w = "returned" -> Returned(c)
                    [] OTHER -> Closed(c)}) = 1
             /\ TimesIn(c, plain) + TimesIn(c, encrypted) <= 1
             /\ c \in pending => Classified(c)
             /\ (InPlain(c) \/ InEncrypted(c) \/ Returned(c))
                => Holders(c) = {}
             /\ (InPlain(c) \/ InEncrypted(c)) => conn[c].st = "open"

\* A connection is returned only as the first of its queue, which it
\* leaves, by the one Accept call that returns in that step (a new call, or
\* a goroutine that leaves accept), after every connection of its kind
\* that was accepted before it and before every one accepted after it; and
\* a returned connection is never touched by the listener again.
ReturnedOnce ==
    \A c \in Conns :
       /\ Returned(c) => conn'[c] = conn[c]
       /\ (~Returned(c) /\ Returned(c)')
          => /\ c = pull(IF conn'[c].st = "encrypted" THEN encrypted
                         ELSE plain)
             /\ ~InPlain(c)' /\ ~InEncrypted(c)'
             /\ BagCardinality(gor') \in {BagCardinality(gor) - 1,
                                          BagCardinality(gor)}
             /\ \A d \in Conns \ {c} : Returned(d)' => Returned(d)
             /\ \A d \in Conns :
                   conn'[d].st = conn'[c].st /\ d # c => d < c
             /\ \A d \in SeqToSet(plain') \cup SeqToSet(encrypted') :
                   d > c \/ d \notin SeqToSet(IF conn'[c].st = "encrypted"
                                              THEN encrypted' ELSE plain')

\* C35: every connection accepted from the parent is at any time in
\* exactly one place (being classified, in one of the two queues, returned
\* to exactly one Accept caller, or closed); no connection is returned by
\* two Accept calls; and the connections of one kind are returned in the
\* order in which they were accepted.
C35_OnePlace ==
    /\ []OnePlace
    /\ [][ReturnedOnce]_vars

\* C35 witness: two connections of one kind were accepted and returned, by
\* two Accept calls.
C35_Witness ==
    /\ nconn >= 2
    /\ conn[1].st = "encrypted"
    /\ conn[2].st = "encrypted"
    /\ gor = EmptyBag

(***************************************************************************)
(* Properties of the scheduler: the deadline of the resolve mode.          *)
(***************************************************************************)
\* C36: in resolve mode the resolve max time is a fixed deadline: once it
\* has elapsed since the start of the scheduler, proc emits no further
\* schedNewMessage or schedSend.
C36_Original ==
    [][(resolve /\ elapsed >= schedResolveMaxTime) => emitted' = emitted]_vars

\* In resolve mode, with the owner reading and never closing, proc is in
\* the middle of a retransmit series, about to send, when the resolve max
\* time has elapsed.
C36_SeriesRunsOn ==
    /\ resolve
    /\ closing = "idle"
    /\ elapsed >= schedResolveMaxTime
    /\ proc.pc = "send"
    /\ proc.tx >= 2
    /\ chan = <<>>

(***************************************************************************)
(* Properties of the validation of scan requests: the color mode.          *)
(***************************************************************************)
\* C37: Validate checks BinaryRendering and Threshold when ColorMode is
\* Binary and Depth for every other ColorMode, the unset one included: a
\* request whose Depth is outside the enumeration or is not offered is
\* rejected whenever its ColorMode is not Binary, and one whose
\* BinaryRendering or Threshold fails is rejected when it is Binary.
C37_Original ==
    vld.pc = "done"
    => /\ (/\ vld.rq.ColorMode # ColorModeBinary
           /\ RuleOf(vld.rq, vld.scancaps, "Depth") # "nil")
          => vld.err # NoError
       /\ (/\ vld.rq.ColorMode = ColorModeBinary
           /\ \/ RuleOf(vld.rq, vld.scancaps, "BinaryRendering") # "nil"
              \/ RuleOf(vld.rq, vld.scancaps, "Threshold") # "nil")
          => vld.err # NoError

\* A request with no ColorMode and a Depth the capabilities do not offer
\* was accepted.
C37_Unsupported ==
    /\ vld.pc = "done"
    /\ vld.rq.ColorMode = ColorModeUnset
    /\ RuleOf(vld.rq, vld.scancaps, "Depth") = "ErrUnsupportedParam"
    /\ vld.err = NoError


(***************************************************************************)
(* Properties of the dispatch of received WSD messages.                    *)
(***************************************************************************)
\* A well-formed message: an XML document with the SOAP envelope, Header
\* and Body, a complete header and a complete body.
WellFormed(pkt) ==
    /\ pkt.xml
    /\ pkt.root = rootName
    /\ pkt.hdr /\ pkt.body
    /\ pkt.hdrOK /\ pkt.bodyOK

\* C38: every well-formed message with Action Hello, Bye, ProbeMatches or
\* ResolveMatches that is not a looped-back packet is decoded without error
\* and handed to the unit-aggregation table; a message with another
\* Action, a looped-back packet and a packet that does not decode are not
\* handed to it.
C38_Original ==
    wq.pc = "done"
    => /\ (/\ WellFormed(wq.pkt)
           /\ ~wq.pkt.looped
           /\ wq.pkt.action \in {ActHello, ActBye, ActProbeMatches,
                                 ActResolveMatches})
          => /\ wq.err = "nil"
             /\ wq.handed
       /\ (\/ wq.pkt.looped
           \/ ~WellFormed(wq.pkt)
           \/ wq.pkt.action \notin {ActHello, ActBye, ActProbeMatches,
                                    ActResolveMatches})
          => ~wq.handed

\* A well-formed ProbeMatches from another host was dropped with a warning.
C38_Dropped ==
    /\ wq.pc = "done"
    /\ WellFormed(wq.pkt)
    /\ ~wq.pkt.looped
    /\ wq.pkt.action = ActProbeMatches
    /\ wq.log = "warning"
    /\ ~wq.handed

\* A well-formed Hello from another host was handed to the table.
C38_Hello ==
    /\ wq.pc = "done"
    /\ wq.pkt.action = ActHello
    /\ wq.handed


(***************************************************************************)
(* Properties of the comparison of UnitIDs.                                *)
(***************************************************************************)
\* DeviceName, Realm and Zone of the two UnitIDs compared all match.
NamesMatch ==
    /\ cmp.id.DeviceName = cmp.id2.DeviceName
    /\ cmp.id.Realm = cmp.id2.Realm
    /\ cmp.id.Zone = cmp.id2.Zone

\* C39: two UnitIDs whose UUID is not available (uuid.NilUUID) are the same
\* device only if their DeviceName, Realm and Zone all match: the UUID
\* missing on both sides never by itself makes SameDevice, SameService or
\* SameUnit hold.
C39_Original ==
    (/\ cmp.pc = "done"
     /\ cmp.id.UUID = NilUUID
     /\ cmp.id2.UUID = NilUUID)
    => /\ cmp.device => NamesMatch
       /\ cmp.service => NamesMatch
       /\ cmp.unit => NamesMatch

\* Two UnitIDs without UUID, of devices with different names found in
\* different realms, were taken for the same unit.
C39_SameUnit ==
    /\ cmp.pc = "done"
    /\ cmp.id.UUID = NilUUID
    /\ cmp.id2.UUID = NilUUID
    /\ cmp.id.DeviceName # cmp.id2.DeviceName
    /\ cmp.id.Realm # cmp.id2.Realm
    /\ cmp.unit


(***************************************************************************)
(* Properties of the set of interfaces.                                    *)
(***************************************************************************)
\* C40: for any sequence of add, del and contains, with the counts kept per
\* interface: add(nif) returns the count of nif before the increment,
\* del(nif) the count after the decrement, and contains(nif) the current
\* count.
C40_Original ==
    /\ sifLast.op = "add"
       => sifLast.ret = sifLast.pre /\ sif[sifLast.nif] = sifLast.pre + 1
    /\ sifLast.op = "del"
       => sifLast.ret = sif[sifLast.nif]
          /\ sif[sifLast.nif] = sifLast.pre - 1
    /\ sifLast.op = "contains"
       => sifLast.ret = sif[sifLast.nif] /\ sif[sifLast.nif] = sifLast.pre

\* The fourth call of the test: del of an interface added once returned 1,
\* the count before the decrement, and the interface is in the set no more.
C40_TestDel ==
    /\ testsFailed = {}
    /\ sifLast.op = "del"
    /\ sifLast.nif = "if1"
    /\ sifLast.pre = 1
    /\ sifLast.ret = 1
    /\ sif["if1"] = 0
    /\ sif["if0"] = 1

====
